---- MODULE Spec2Model ----
(***************************************************************************)
(* SP_DATA v16: the manifest-driven ingestion and transformation           *)
(* pipelines (src/src/sp_data_v16).  Tables are sets of rows, the primary  *)
(* keys are enforced by the insert operators, byte strings are sequences   *)
(* of byte values, and a Python Optional is a sequence of length 0 or 1.   *)
(***************************************************************************)
EXTENDS Integers, Sequences, FiniteSets, TLC

VARIABLES
    manifestCols,   \* name of the path column of table file_manifest
    manifest,       \* rows of file_manifest: [file_hash, path, status]
    raw,            \* rows of raw_files: [file_hash, raw_content]
    schemas,        \* SchemaManager.schemas, in file order
    root,           \* whether the input directory exists
    disk,           \* path -> what the file system holds there
    pc,             \* position of the running pipeline
    queue,          \* all_files still to be yielded by scan_directory
    cur,            \* (file_hash, file_path) of the file being added
    pending,        \* pending_files_data still to be processed
    scanned_count, added_count, skipped_count,
    err,            \* the exception that ended the last call or run
    lastRun,        \* how the last run() returned
    closed,         \* the connections the last run() closed, in order
    rescan,         \* the directory is as the last completed ingestion left it
    call,           \* the last call made to ManifestManager directly
    handled,        \* the last file run() took from its queue, and the calls made for it
    processed,      \* tables of the processed store
    unit            \* the last call made to a component on its own

\* what the pipelines' runs leave alone
apiVars == <<call, unit>>

vars == <<manifestCols, manifest, raw, schemas, root, disk, pc, queue, cur,
          pending, scanned_count, added_count, skipped_count, err, lastRun, closed,
          rescan, call, handled, processed, unit>>

----------------------------------------------------------------------------
(* Bounds of the model *)

\* rows of an externally prepared manifest
MaxExtRows == 2
\* bytes read per f.read() while hashing (4096 in the code)
ChunkSize == 2

----------------------------------------------------------------------------
(* Python values *)

NoneVal == <<>>
Some(x) == <<x>>
IsNone(o) == o = <<>>
Val(o) == o[1]

NoErr == "none"

NoFile == [file |-> NoneVal, calls |-> <<>>]

Min(a, b) == IF a < b THEN a ELSE b

----------------------------------------------------------------------------
(* Files and contents *)

Paths == {"a.txt", "b.txt"}

\* the empty file and "A,1"
DiskContents == {<<>>, <<65, 44, 49>>}

\* also "1", "b", the byte 0xFF, which neither utf-8 nor big5 decodes, "a"
\* followed by the big5 character A4 40, which utf-8 does not decode, and a
\* line that opens a quoted field and never closes it
Contents ==
    DiskContents \cup {<<49>>, <<98>>, <<255>>, <<97, 164, 64>>, <<34, 97>>}

Absent == [kind |-> "absent", content |-> <<>>]
\* a regular file whose open() or read() fails
Unreadable == [kind |-> "unreadable", content |-> <<>>]
File(c) == [kind |-> "file", content |-> c]

FileStates == {Absent, Unreadable} \cup {File(c) : c \in DiskContents}

Orders(S) ==
    {s \in [1..Cardinality(S) -> S] : \A i, j \in DOMAIN s : i # j => s[i] # s[j]}

\* all_files = [f for f in path_obj.rglob('*') if f.is_file()], in walk order
AllFiles(d) == Orders({p \in Paths : d[p].kind # "absent"})

----------------------------------------------------------------------------
(* FileScanner: SHA-256, idealised as an injective fold of the bytes *)

RECURSIVE sha256_update(_, _)
sha256_update(state, chunk) ==
    IF chunk = <<>> THEN state
    ELSE sha256_update(state * 257 + Head(chunk) + 1, Tail(chunk))

RECURSIVE HashChunks(_, _)
HashChunks(state, rest) ==
    LET chunk == SubSeq(rest, 1, Min(ChunkSize, Len(rest))) IN
    IF chunk = <<>> THEN state
    ELSE HashChunks(sha256_update(state, chunk),
                    SubSeq(rest, Len(chunk) + 1, Len(rest)))

sha256_file(content) == HashChunks(0, content)

\* faulty variant: the first file that cannot be read ends the scan
RECURSIVE scan_directory_stops_at_error(_, _)
scan_directory_stops_at_error(d, all_files) ==
    IF all_files = <<>> THEN [yields |-> <<>>, warnings |-> <<>>]
    ELSE LET file_path == Head(all_files)
             rest == scan_directory_stops_at_error(d, Tail(all_files))
         IN  IF d[file_path].kind = "unreadable"
             THEN [yields |-> <<>>, warnings |-> <<file_path>>]
             ELSE [yields |-> <<[file_hash |-> sha256_file(d[file_path].content),
                                 file_path |-> file_path]>> \o rest.yields,
                   warnings |-> rest.warnings]

\* the loop of scan_directory over all_files: what it yields, in order, and
\* the files it warns about
RECURSIVE scan_directory(_, _)
scan_directory(d, all_files) ==
    IF all_files = <<>> THEN [yields |-> <<>>, warnings |-> <<>>]
    ELSE LET file_path == Head(all_files)
             rest == scan_directory(d, Tail(all_files))
         IN  IF d[file_path].kind = "unreadable"
             THEN [yields |-> rest.yields,
                   warnings |-> <<file_path>> \o rest.warnings]
             ELSE [yields |-> <<[file_hash |-> sha256_file(d[file_path].content),
                                 file_path |-> file_path]>> \o rest.yields,
                   warnings |-> rest.warnings]

----------------------------------------------------------------------------
(* ManifestManager *)

ManifestRow(h, p, s) == [file_hash |-> h, path |-> p, status |-> s]

\* faulty variant: the count is compared with 1 instead of 0
hash_exists_more_than_one(m, h) == Cardinality({r \in m : r.file_hash = h}) > 1

\* faulty variant: only rows past the status registered count
hash_exists_past_registered(m, h) ==
    Cardinality({r \in m : r.file_hash = h /\ r.status # "registered"}) > 0

hash_exists(m, h) == Cardinality({r \in m : r.file_hash = h}) > 0

\* faulty variant: INSERT OR REPLACE instead of INSERT
InsertManifestOrReplace(m, row) ==
    [err |-> NoErr,
     table |-> {r \in m : r.file_hash # row.file_hash} \cup {row}]

InsertManifest(m, row) ==
    IF \E r \in m : r.file_hash = row.file_hash
    THEN [err |-> "ConstraintException", table |-> m]
    ELSE [err |-> NoErr, table |-> m \cup {row}]

\* faulty variant: the row is inserted as already loaded
register_file_as_loaded(cols, m, h, p) ==
    IF cols # "source_path"
    THEN [err |-> "BinderException", table |-> m]
    ELSE InsertManifest(m, ManifestRow(h, p, "loaded_to_raw_lake"))

register_file(cols, m, h, p) ==
    IF cols # "source_path"
    THEN [err |-> "BinderException", table |-> m]
    ELSE InsertManifest(m, ManifestRow(h, p, "registered"))

\* faulty variant: UPDATE without its WHERE clause
update_status_every_row(m, h, s) == {[r EXCEPT !.status = s] : r \in m}

\* faulty variant: an UPDATE that inserts the row when no row has the hash
update_status_or_insert(m, h, s) ==
    IF \E r \in m : r.file_hash = h
    THEN {IF r.file_hash = h THEN [r EXCEPT !.status = s] ELSE r : r \in m}
    ELSE m \cup {ManifestRow(h, "a.txt", s)}

update_status(m, h, s) ==
    {IF r.file_hash = h THEN [r EXCEPT !.status = s] ELSE r : r \in m}

\* faulty variant: update_status without its handler
update_status_call_reraises(m, h, s, fault) ==
    IF fault # NoErr THEN [err |-> fault, table |-> m]
    ELSE [err |-> NoErr, table |-> update_status(m, h, s)]

\* update_status with the UPDATE or the commit failing (fault) or not: the
\* handler prints the error and the method returns
update_status_call(m, h, s, fault) ==
    LET r == IF fault # NoErr THEN [err |-> fault, table |-> m]
             ELSE [err |-> NoErr, table |-> update_status(m, h, s)]
    IN  IF r.err # NoErr THEN [err |-> NoErr, table |-> r.table] ELSE r

get_file_status(m, h) ==
    IF \E r \in m : r.file_hash = h
    THEN Some((CHOOSE r \in m : r.file_hash = h).status)
    ELSE NoneVal

----------------------------------------------------------------------------
(* RawLakeLoader / RawLakeReader *)

RawRow(h, c) == [file_hash |-> h, raw_content |-> c]

InsertRaw(t, row) ==
    IF \E b \in t : b.file_hash = row.file_hash
    THEN [err |-> "ConstraintException", table |-> t]
    ELSE [err |-> NoErr, table |-> t \cup {row}]

\* faulty variant: only the first chunk of the file is read
save_file_first_chunk(t, content, h) ==
    InsertRaw(t, RawRow(h, SubSeq(content, 1, Min(ChunkSize, Len(content)))))

\* faulty variant: INSERT OR REPLACE
save_file_or_replace(t, content, h) ==
    [err |-> NoErr,
     table |-> {b \in t : b.file_hash # h} \cup {RawRow(h, content)}]

save_file(t, content, h) == InsertRaw(t, RawRow(h, content))

\* faulty variant: a missing row is reported as empty content
get_raw_content_empty_when_missing(t, h) ==
    IF \E b \in t : b.file_hash = h
    THEN Some((CHOOSE b \in t : b.file_hash = h).raw_content)
    ELSE Some(<<>>)

\* faulty variant: a stored blob of no bytes is reported as not found
get_raw_content_falsy_is_none(t, h) ==
    IF \E b \in t : b.file_hash = h /\ b.raw_content # <<>>
    THEN Some((CHOOSE b \in t : b.file_hash = h).raw_content)
    ELSE NoneVal

get_raw_content(t, h) ==
    IF \E b \in t : b.file_hash = h
    THEN Some((CHOOSE b \in t : b.file_hash = h).raw_content)
    ELSE NoneVal

\* what self.con.execute(...).fetchone() does: a closed connection raises
\* duckdb.ConnectionException, and a query on an open one may fail
ReaderQuery(con, fault, t, h) ==
    IF con = "closed" THEN [exc |-> "ConnectionException", value |-> NoneVal]
    ELSE IF fault # NoErr THEN [exc |-> fault, value |-> NoneVal]
    ELSE [exc |-> NoErr, value |-> get_raw_content(t, h)]

\* faulty variant: get_raw_content without its two handlers
get_raw_content_unguarded(con, fault, t, h) ==
    IF con = "none" THEN [exc |-> NoErr, value |-> NoneVal]
    ELSE ReaderQuery(con, fault, t, h)

\* get_raw_content on a reader whose connection is open, closed or not there
get_raw_content_on(con, fault, t, h) ==
    LET result == ReaderQuery(con, fault, t, h) IN
    IF con = "none" THEN [exc |-> NoErr, value |-> NoneVal]
    ELSE IF result.exc \in {"ConnectionException", "CatalogException"}
    THEN [exc |-> NoErr, value |-> NoneVal]
    ELSE IF result.exc # NoErr THEN [exc |-> NoErr, value |-> NoneVal]
    ELSE result

----------------------------------------------------------------------------
(* Text *)

\* bytes.decode('big5'): an ASCII byte is a character, a lead byte A1..F9
\* followed by a trail byte 40..7E or A1..FE is one character (here numbered
\* 256 * lead + trail), anything else raises UnicodeDecodeError
RECURSIVE DecodeBig5(_)
DecodeBig5(bytes) ==
    IF bytes = <<>> THEN Some(<<>>)
    ELSE IF Head(bytes) < 128
    THEN LET rest == DecodeBig5(Tail(bytes)) IN
         IF IsNone(rest) THEN NoneVal ELSE Some(<<Head(bytes)>> \o Val(rest))
    ELSE IF /\ Head(bytes) >= 161 /\ Head(bytes) <= 249 /\ Len(bytes) >= 2
            /\ \/ (bytes[2] >= 64 /\ bytes[2] <= 126)
               \/ (bytes[2] >= 161 /\ bytes[2] <= 254)
    THEN LET rest == DecodeBig5(SubSeq(bytes, 3, Len(bytes))) IN
         IF IsNone(rest) THEN NoneVal
         ELSE Some(<<256 * bytes[1] + bytes[2]>> \o Val(rest))
    ELSE NoneVal

\* bytes.decode(encoding) for the byte strings of Contents, whose bytes above
\* 0x7F (A4, FF) start no utf-8 sequence; None stands for UnicodeDecodeError
Decode(bytes, encoding) ==
    IF encoding = "big5" THEN DecodeBig5(bytes)
    ELSE IF \A i \in DOMAIN bytes : bytes[i] < 128 THEN Some(bytes) ELSE NoneVal

Lower(s) == [i \in DOMAIN s |-> IF s[i] >= 65 /\ s[i] <= 90 THEN s[i] + 32 ELSE s[i]]

\* kw in text
Contains(text, kw) ==
    \E i \in 0..(Len(text) - Len(kw)) : SubSeq(text, i + 1, i + Len(kw)) = kw

----------------------------------------------------------------------------
(* SchemaManager *)

\* columns given as a JSON array of names, the shape DataParser accepts
ListSchema ==
    [name |-> "list_schema", keywords |-> << <<97>> >>, encoding |-> "utf-8",
     delimiter |-> 44,
     columns |-> [kind |-> "list", names |-> <<"id", "value">>, specs |-> <<>>],
     table_name |-> "list_table", unique_key |-> <<>>]

\* columns given as a JSON object name -> spec, the shape DataValidator accepts
DictSchema ==
    [name |-> "csv_valid_data", keywords |-> << <<66>> >>, encoding |-> "utf-8",
     delimiter |-> 44,
     columns |-> [kind |-> "dict", names |-> <<"id", "name">>,
                  specs |-> <<[dtype |-> "integer", nullable |-> FALSE],
                              [dtype |-> "string", nullable |-> TRUE]>>],
     table_name |-> "valid_data_table", unique_key |-> <<"id">>]

Registries == {<<ListSchema, DictSchema>>}

\* the file at schema_path: not there, not JSON, or the JSON of a registry
SchemaFiles ==
    {[kind |-> "missing", schemas |-> <<>>],
     [kind |-> "invalid_json", schemas |-> <<>>]}
        \cup {[kind |-> "valid", schemas |-> reg] : reg \in Registries}

\* faulty variant: only a missing file leaves the registry empty; a file that
\* is not JSON leaves the schemas of the packaged configuration
SchemaManager_default_on_bad_json(schema_file) ==
    IF schema_file.kind = "missing" THEN <<>>
    ELSE IF schema_file.kind = "invalid_json" THEN <<ListSchema, DictSchema>>
    ELSE schema_file.schemas

\* SchemaManager.__init__: self.schemas after construction; FileNotFoundError
\* and json.JSONDecodeError are caught and leave the {} set before the try
SchemaManager(schema_file) ==
    LET schemas0 == <<>> IN
    IF schema_file.kind = "missing" THEN schemas0
    ELSE IF schema_file.kind = "invalid_json" THEN schemas0
    ELSE schema_file.schemas

\* faulty variant: when no keyword matches, the first schema is returned
RECURSIVE FirstMatchOrFirst(_, _, _)
FirstMatchOrFirst(reg, i, decoded_content) ==
    IF i > Len(reg) THEN Some(reg[1].name)
    ELSE LET keywords == reg[i].keywords IN
         IF keywords # <<>> /\ \E k \in DOMAIN keywords :
                                  Contains(decoded_content, Lower(keywords[k]))
         THEN Some(reg[i].name)
         ELSE FirstMatchOrFirst(reg, i + 1, decoded_content)

\* faulty variant: the last matching schema wins
RECURSIVE FirstMatchLast(_, _, _)
FirstMatchLast(reg, i, decoded_content) ==
    IF i > Len(reg) THEN NoneVal
    ELSE LET keywords == reg[i].keywords
             later == FirstMatchLast(reg, i + 1, decoded_content)
         IN  IF ~IsNone(later) THEN later
             ELSE IF keywords # <<>> /\ \E k \in DOMAIN keywords :
                                          Contains(decoded_content, Lower(keywords[k]))
             THEN Some(reg[i].name)
             ELSE NoneVal

\* faulty variant: a schema without keywords matches every content
RECURSIVE FirstMatchNoKeywords(_, _, _)
FirstMatchNoKeywords(reg, i, decoded_content) ==
    IF i > Len(reg) THEN NoneVal
    ELSE LET keywords == reg[i].keywords IN
         IF keywords = <<>> \/ \E k \in DOMAIN keywords :
                                  Contains(decoded_content, Lower(keywords[k]))
         THEN Some(reg[i].name)
         ELSE FirstMatchNoKeywords(reg, i + 1, decoded_content)

\* faulty variant: the table name of the matching schema is returned, not the
\* key it is registered under
RECURSIVE FirstMatchTableName(_, _, _)
FirstMatchTableName(reg, i, decoded_content) ==
    IF i > Len(reg) THEN NoneVal
    ELSE LET keywords == reg[i].keywords IN
         IF keywords # <<>> /\ \E k \in DOMAIN keywords :
                                  Contains(decoded_content, Lower(keywords[k]))
         THEN Some(reg[i].table_name)
         ELSE FirstMatchTableName(reg, i + 1, decoded_content)

RECURSIVE FirstMatch(_, _, _)
FirstMatch(reg, i, decoded_content) ==
    IF i > Len(reg) THEN NoneVal
    ELSE LET keywords == reg[i].keywords IN
         IF keywords # <<>> /\ \E k \in DOMAIN keywords :
                                  Contains(decoded_content, Lower(keywords[k]))
         THEN Some(reg[i].name)
         ELSE FirstMatch(reg, i + 1, decoded_content)

identify_schema_from_content(reg, raw_content) ==
    LET utf8 == Decode(raw_content, "utf-8")
        big5 == Decode(raw_content, "big5")
        decoded == IF ~IsNone(utf8) THEN utf8 ELSE big5
    IN  IF IsNone(decoded) THEN NoneVal
        ELSE IF reg = <<>> \/ Lower(Val(decoded)) = <<>> THEN NoneVal
        ELSE FirstMatch(reg, 1, Lower(Val(decoded)))

\* self.schemas.get(schema_name)
SchemaGet(reg, schema_name) ==
    IF \E i \in DOMAIN reg : reg[i].name = schema_name
    THEN Some(reg[CHOOSE i \in DOMAIN reg : reg[i].name = schema_name])
    ELSE NoneVal

----------------------------------------------------------------------------
(* DataParser: a DataFrame is [columns, rows]; a cell is an Optional string *)

RECURSIVE SplitOn(_, _)
SplitOn(s, sep) ==
    IF \A i \in DOMAIN s : s[i] # sep THEN <<s>>
    ELSE LET k == CHOOSE i \in DOMAIN s :
                      s[i] = sep /\ \A j \in 1..(i - 1) : s[j] # sep
         IN  <<SubSeq(s, 1, k - 1)>> \o SplitOn(SubSeq(s, k + 1, Len(s)), sep)

RECURSIVE StripLeft(_)
StripLeft(s) == IF s # <<>> /\ Head(s) = 32 THEN StripLeft(Tail(s)) ELSE s

Cell(field) == IF StripLeft(field) = <<>> THEN NoneVal ELSE Some(StripLeft(field))

\* names=columns, header=None, index_col=False: the fields of a line are
\* assigned to the names by position, extra ones dropped, missing ones NaN
ParseLine(line, delimiter, ncols) ==
    LET fields == SplitOn(line, delimiter) IN
    [i \in 1..ncols |-> IF i <= Len(fields) THEN Cell(fields[i]) ELSE NoneVal]

read_csv(text, delimiter, names) ==
    LET lines == SelectSeq(SplitOn(text, 10), LAMBDA l : l # <<>>) IN
    [columns |-> names,
     rows |-> [i \in DOMAIN lines |-> ParseLine(lines[i], delimiter, Len(names))]]

\* the C tokenizer reaches the end of the text inside a quoted field: a field
\* that opens with a quote and holds no second one
EOFInsideString(text, delimiter) ==
    \E i \in DOMAIN SplitOn(text, 10) :
        LET fields == SplitOn(SplitOn(text, 10)[i], delimiter) IN
        \E k \in DOMAIN fields :
            LET field == StripLeft(fields[k]) IN
            /\ field # <<>> /\ Head(field) = 34
            /\ \A j \in 2..Len(field) : field[j] # 34

\* the try block of parse: the exception it raises, or the DataFrame
parse_try(raw_content, schema) ==
    LET decoded_content == Decode(raw_content, schema.encoding) IN
    IF IsNone(decoded_content)
    THEN [exc |-> "UnicodeDecodeError", value |-> NoneVal]
    ELSE IF EOFInsideString(Val(decoded_content), schema.delimiter)
    THEN [exc |-> "ParserError", value |-> NoneVal]
    ELSE [exc |-> NoErr,
          value |-> Some(read_csv(Val(decoded_content), schema.delimiter,
                                  schema.columns.names))]

\* faulty variant: no handler for UnicodeDecodeError
parse_lets_decode_error_out(raw_content, schema) ==
    IF raw_content = <<>> THEN [exc |-> NoErr, value |-> NoneVal]
    ELSE IF schema.columns.kind # "list" \/ schema.columns.names = <<>>
    THEN [exc |-> NoErr, value |-> NoneVal]
    ELSE LET r == parse_try(raw_content, schema) IN
         IF r.exc \in {NoErr, "UnicodeDecodeError"} THEN r
         ELSE [exc |-> NoErr, value |-> NoneVal]

\* what parse raises (exc) and returns (value)
parse(raw_content, schema) ==
    IF raw_content = <<>> THEN [exc |-> NoErr, value |-> NoneVal]
    ELSE IF schema.columns.kind # "list" \/ schema.columns.names = <<>>
    THEN [exc |-> NoErr, value |-> NoneVal]
    ELSE LET r == parse_try(raw_content, schema) IN
         IF r.exc # NoErr THEN [exc |-> NoErr, value |-> NoneVal] ELSE r

----------------------------------------------------------------------------
(* DataValidator *)

\* a decimal numeral: digits with at most one point among them
IsNumeric(s) ==
    /\ \E i \in DOMAIN s : s[i] >= 48 /\ s[i] <= 57
    /\ \A i \in DOMAIN s : (s[i] >= 48 /\ s[i] <= 57) \/ s[i] = 46
    /\ Cardinality({i \in DOMAIN s : s[i] = 46}) <= 1

\* the numeral denotes a whole number
IsIntegral(s) ==
    \A i \in DOMAIN s : s[i] = 46 => \A j \in (i + 1)..Len(s) : s[j] = 48

\* pd.to_numeric(errors='coerce') for 'integer' and 'float': what is no number
\* becomes NaN; a dtype that is neither is left as it is (the schemas of the
\* model declare no 'datetime' column)
Coerce(dtype, cell) ==
    IF dtype \in {"integer", "float"} /\ ~IsNone(cell) /\ ~IsNumeric(Val(cell))
    THEN NoneVal ELSE cell

ColumnIndex(df, column_name) ==
    CHOOSE i \in DOMAIN df.columns : df.columns[i] = column_name

CoerceFrame(df, columns) ==
    [df EXCEPT !.rows =
        [r \in DOMAIN df.rows |->
            [c \in DOMAIN df.columns |->
                IF \E k \in DOMAIN columns.names : columns.names[k] = df.columns[c]
                THEN Coerce(columns.specs[CHOOSE k \in DOMAIN columns.names :
                                columns.names[k] = df.columns[c]].dtype,
                            df.rows[r][c])
                ELSE df.rows[r][c]]]]

has_critical_error(processed_df, columns) ==
    \E k \in DOMAIN columns.names :
        /\ \E c \in DOMAIN processed_df.columns :
               processed_df.columns[c] = columns.names[k]
        /\ ~columns.specs[k].nullable
        /\ \E r \in DOMAIN processed_df.rows :
               IsNone(processed_df.rows[r][ColumnIndex(processed_df, columns.names[k])])

\* .astype('Int64') raises TypeError (cannot safely cast non-equivalent
\* float64 to int64) when an 'integer' column holds a number with a fraction
CastFails(processed_df, columns) ==
    \E k \in DOMAIN columns.names :
        /\ \E c \in DOMAIN processed_df.columns :
               processed_df.columns[c] = columns.names[k]
        /\ columns.specs[k].dtype = "integer"
        /\ \E r \in DOMAIN processed_df.rows :
               LET cell == processed_df.rows[r][ColumnIndex(processed_df, columns.names[k])]
               IN  ~IsNone(cell) /\ ~IsIntegral(Val(cell))

\* faulty variant: a non-nullable column the DataFrame lacks is a critical
\* error
validate_requires_declared_columns(dataframe, schema) ==
    IF schema.columns.kind # "dict"
    THEN [exc |-> "AttributeError", value |-> NoneVal]
    ELSE IF CastFails(CoerceFrame(dataframe, schema.columns), schema.columns)
    THEN [exc |-> "TypeError", value |-> NoneVal]
    ELSE LET processed_df == CoerceFrame(dataframe, schema.columns) IN
         IF \/ has_critical_error(processed_df, schema.columns)
            \/ \E k \in DOMAIN schema.columns.names :
                   /\ ~schema.columns.specs[k].nullable
                   /\ \A c \in DOMAIN dataframe.columns :
                          dataframe.columns[c] # schema.columns.names[k]
         THEN [exc |-> NoErr, value |-> NoneVal]
         ELSE [exc |-> NoErr, value |-> Some(processed_df)]

\* schema.get('columns', {}).items() raises AttributeError on a list
validate(dataframe, schema) ==
    IF schema.columns.kind # "dict"
    THEN [exc |-> "AttributeError", value |-> NoneVal]
    ELSE IF CastFails(CoerceFrame(dataframe, schema.columns), schema.columns)
    THEN [exc |-> "TypeError", value |-> NoneVal]
    ELSE LET processed_df == CoerceFrame(dataframe, schema.columns) IN
         IF has_critical_error(processed_df, schema.columns)
         THEN [exc |-> NoErr, value |-> NoneVal]
         ELSE [exc |-> NoErr, value |-> Some(processed_df)]

----------------------------------------------------------------------------
(* TransformationPipeline *)

\* faulty variant: SELECT without the status filter
find_pending_files_any_status(cols, m) == IF cols # "file_path" THEN {} ELSE m

find_pending_files(cols, m) ==
    IF cols # "file_path" THEN {}
    ELSE {r \in m : r.status = "loaded_to_raw_lake"}

\* ProcessedDBLoader.load_dataframe(self, dataframe, table_name, schema_definition)
load_dataframe_params == <<"dataframe", "table_name", "schema_definition">>

\* run() calls self.processed_loader.load_dataframe(validated_df, table_name):
\* the exception of the call and the store after it
LoadCall(store, validated_df, table_name) ==
    IF Len(<<validated_df, table_name>>) # Len(load_dataframe_params)
    THEN [exc |-> "TypeError", store |-> store]
    ELSE [exc |-> NoErr, store |-> store]

Outcome(e, s, c, st) == [exc |-> e, status |-> s, calls |-> c, store |-> st]

\* faulty variant: a rejected table is loaded like an accepted one
LoopBodyLoadsRejected(raw_content, schema_name, schema_definition, parsed, validated_df, loaded, store) ==
    LET c1 == <<"get_raw_content">>
        c2 == Append(c1, "identify_schema_from_content")
        c3 == Append(c2, "parse")
        c4 == Append(c3, "validate")
        c5 == Append(c4, "load_dataframe")
    IN
    IF IsNone(raw_content) THEN Outcome(NoErr, "parse_error_no_content", c1, store) ELSE
    IF IsNone(schema_name)
    THEN Outcome(NoErr, "parse_error_schema_not_identified", c2, store) ELSE
    IF IsNone(schema_definition)
    THEN Outcome(NoErr, "parse_error_schema_missing", c2, store) ELSE
    IF parsed.exc # NoErr THEN Outcome(parsed.exc, "", c3, store) ELSE
    IF IsNone(parsed.value)
    THEN Outcome(NoErr, "parse_error_parser_failed", c3, store) ELSE
    IF validated_df.exc # NoErr THEN Outcome(validated_df.exc, "", c4, store) ELSE
    IF loaded.exc = NoErr
    THEN Outcome(NoErr, "processed", c5, loaded.store)
    ELSE Outcome(NoErr, "load_error", c5, loaded.store)

\* faulty variant: an exception of the loader that is not a duckdb.Error
\* leaves the loop
LoopBodyCatchesDuckDBOnly(raw_content, schema_name, schema_definition, parsed, validated_df, loaded, store) ==
    LET c1 == <<"get_raw_content">>
        c2 == Append(c1, "identify_schema_from_content")
        c3 == Append(c2, "parse")
        c4 == Append(c3, "validate")
        c5 == Append(c4, "load_dataframe")
    IN
    IF IsNone(raw_content) THEN Outcome(NoErr, "parse_error_no_content", c1, store) ELSE
    IF IsNone(schema_name)
    THEN Outcome(NoErr, "parse_error_schema_not_identified", c2, store) ELSE
    IF IsNone(schema_definition)
    THEN Outcome(NoErr, "parse_error_schema_missing", c2, store) ELSE
    IF parsed.exc # NoErr THEN Outcome(parsed.exc, "", c3, store) ELSE
    IF IsNone(parsed.value)
    THEN Outcome(NoErr, "parse_error_parser_failed", c3, store) ELSE
    IF validated_df.exc # NoErr THEN Outcome(validated_df.exc, "", c4, store) ELSE
    IF \/ IsNone(validated_df.value)
       \/ (Len(Val(parsed.value).rows) > 0 /\ Len(Val(validated_df.value).rows) = 0)
    THEN Outcome(NoErr, "validation_error", c4, store) ELSE
    IF loaded.exc = NoErr
    THEN Outcome(NoErr, "processed", c5, loaded.store)
    ELSE IF loaded.exc = "duckdb.Error"
    THEN Outcome(NoErr, "load_error", c5, loaded.store)
    ELSE Outcome(loaded.exc, "", c5, loaded.store)

\* one iteration of the loop of run(), given what each component returns or
\* raises when it is called: the status written, or the exception that leaves
\* the loop, the components called on the way and the processed store after
LoopBody(raw_content, schema_name, schema_definition, parsed, validated_df, loaded, store) ==
    LET c1 == <<"get_raw_content">>
        c2 == Append(c1, "identify_schema_from_content")
        c3 == Append(c2, "parse")
        c4 == Append(c3, "validate")
        c5 == Append(c4, "load_dataframe")
    IN
    IF IsNone(raw_content) THEN Outcome(NoErr, "parse_error_no_content", c1, store) ELSE
    IF IsNone(schema_name)
    THEN Outcome(NoErr, "parse_error_schema_not_identified", c2, store) ELSE
    IF IsNone(schema_definition)
    THEN Outcome(NoErr, "parse_error_schema_missing", c2, store) ELSE
    IF parsed.exc # NoErr THEN Outcome(parsed.exc, "", c3, store) ELSE
    IF IsNone(parsed.value)
    THEN Outcome(NoErr, "parse_error_parser_failed", c3, store) ELSE
    IF validated_df.exc # NoErr THEN Outcome(validated_df.exc, "", c4, store) ELSE
    IF \/ IsNone(validated_df.value)
       \/ (Len(Val(parsed.value).rows) > 0 /\ Len(Val(validated_df.value).rows) = 0)
    THEN Outcome(NoErr, "validation_error", c4, store) ELSE
    IF loaded.exc = NoErr
    THEN Outcome(NoErr, "processed", c5, loaded.store)
    ELSE Outcome(NoErr, "load_error", c5, loaded.store)

\* the iteration with the pipeline's own components
ProcessFile(reg, t, file_hash, store) ==
    LET raw_content == get_raw_content(t, file_hash)
        schema_name == identify_schema_from_content(reg, Val(raw_content))
        schema_definition == SchemaGet(reg, Val(schema_name))
        parsed == parse(Val(raw_content), Val(schema_definition))
        validated_df == validate(Val(parsed.value), Val(schema_definition))
        loaded == LoadCall(store, Val(validated_df.value),
                           Val(schema_definition).table_name)
    IN  LoopBody(raw_content, schema_name, schema_definition, parsed,
                 validated_df, loaded, store)

----------------------------------------------------------------------------
(* IngestionPipeline.run() *)

\* what the last run reported stands until the next run starts or the
\* directory changes
ClearReport ==
    /\ scanned_count' = 0
    /\ added_count' = 0
    /\ skipped_count' = 0
    /\ err' = NoErr
    /\ lastRun' = "none"
    /\ closed' = <<>>
    /\ handled' = NoFile

\* faulty variant: close() stops after the manifest connections
close_manifest_only == <<"manifest_con", "manifest_manager">>

\* TransformationPipeline.close(), called in the finally block of run()
close == <<"manifest_con", "raw_lake_reader", "manifest_manager", "processed_loader">>

\* faulty variant: the finally block of IngestionPipeline.run() closes the
\* manifest only
ClosesManifestOnly(kind) ==
    IF kind = "ingest_aborted" THEN <<"manifest_manager">>
    ELSE <<"manifest_con", "raw_lake_reader", "manifest_manager", "processed_loader">>

\* the finally block of IngestionPipeline.run(), and TransformationPipeline.close()
Closes(kind) ==
    IF kind = "ingest_aborted" THEN <<"manifest_manager", "raw_loader">>
    ELSE close

Abort(kind, e) ==
    /\ pc' = "idle"
    /\ err' = e
    /\ lastRun' = kind
    /\ closed' = Closes(kind)
    /\ queue' = <<>>
    /\ cur' = NoneVal
    /\ pending' = {}

IngestStart ==
    /\ pc = "idle"
    /\ scanned_count' = 0
    /\ added_count' = 0
    /\ skipped_count' = 0
    /\ IF ~root
       THEN /\ Abort("ingest_aborted", "FileNotFoundError")
       ELSE /\ pc' = "scan"
            /\ queue' \in AllFiles(disk)
            /\ err' = NoErr
            /\ lastRun' = "none"
            /\ closed' = <<>>
            /\ UNCHANGED <<cur, pending>>
    /\ UNCHANGED <<manifestCols, manifest, raw, schemas, root, disk, rescan>>
    /\ UNCHANGED apiVars
    /\ UNCHANGED processed
    /\ handled' = NoFile

\* the hashing of one file raises IOError: a warning, and the scan goes on
IngestSkipUnreadable ==
    /\ pc = "scan"
    /\ queue # <<>>
    /\ disk[Head(queue)].kind = "unreadable"
    /\ queue' = Tail(queue)
    /\ UNCHANGED <<manifestCols, manifest, raw, schemas, root, disk, pc, cur,
                   pending, scanned_count, added_count, skipped_count, err,
                   lastRun, closed, rescan>>
    /\ UNCHANGED apiVars
    /\ UNCHANGED processed
    /\ UNCHANGED handled

IngestSkipExisting ==
    /\ pc = "scan"
    /\ queue # <<>>
    /\ disk[Head(queue)].kind = "file"
    /\ hash_exists(manifest, sha256_file(disk[Head(queue)].content))
    /\ scanned_count' = scanned_count + 1
    /\ skipped_count' = skipped_count + 1
    /\ queue' = Tail(queue)
    /\ UNCHANGED <<manifestCols, manifest, raw, schemas, root, disk, pc, cur,
                   pending, added_count, err, lastRun, closed, rescan>>
    /\ UNCHANGED apiVars
    /\ UNCHANGED processed
    /\ UNCHANGED handled

IngestRegister ==
    /\ pc = "scan"
    /\ queue # <<>>
    /\ disk[Head(queue)].kind = "file"
    /\ LET file_path == Head(queue)
           file_hash == sha256_file(disk[file_path].content)
           r == register_file(manifestCols, manifest, file_hash, file_path)
       IN  /\ ~hash_exists(manifest, file_hash)
           /\ scanned_count' = scanned_count + 1
           /\ manifest' = r.table
           /\ IF r.err # NoErr
              THEN Abort("ingest_aborted", r.err)
              ELSE /\ pc' = "save"
                   /\ cur' = Some([file_hash |-> file_hash, file_path |-> file_path])
                   /\ queue' = Tail(queue)
                   /\ UNCHANGED <<err, lastRun, closed, pending>>
    /\ UNCHANGED <<manifestCols, raw, schemas, root, disk, added_count,
                   skipped_count, rescan>>
    /\ UNCHANGED apiVars
    /\ UNCHANGED processed
    /\ UNCHANGED handled

\* save_file: read_bytes, INSERT, commit; the store may refuse the write
IngestSave ==
    /\ pc = "save"
    /\ \E fault \in BOOLEAN :
         LET c == Val(cur)
             r == IF fault THEN [err |-> "IOException", table |-> raw]
                  ELSE save_file(raw, disk[c.file_path].content, c.file_hash)
         IN  /\ raw' = r.table
             /\ IF r.err # NoErr
                THEN Abort("ingest_aborted", r.err)
                ELSE /\ pc' = "update"
                     /\ UNCHANGED <<err, lastRun, closed, queue, cur, pending>>
    /\ UNCHANGED <<manifestCols, manifest, schemas, root, disk, scanned_count,
                   added_count, skipped_count, rescan>>
    /\ UNCHANGED apiVars
    /\ UNCHANGED processed
    /\ UNCHANGED handled

IngestUpdate ==
    /\ pc = "update"
    /\ manifest' = update_status(manifest, Val(cur).file_hash, "loaded_to_raw_lake")
    /\ added_count' = added_count + 1
    /\ pc' = "scan"
    /\ cur' = NoneVal
    /\ UNCHANGED <<manifestCols, raw, schemas, root, disk, queue, pending,
                   scanned_count, skipped_count, err, lastRun, closed, rescan>>
    /\ UNCHANGED apiVars
    /\ UNCHANGED processed
    /\ UNCHANGED handled

\* the scan is exhausted: connections closed, summary printed
IngestFinish ==
    /\ pc = "scan"
    /\ queue = <<>>
    /\ pc' = "idle"
    /\ lastRun' = "ingest_completed"
    /\ closed' = Closes("ingest_aborted")
    /\ rescan' = TRUE
    /\ UNCHANGED <<manifestCols, manifest, raw, schemas, root, disk, queue, cur,
                   pending, scanned_count, added_count, skipped_count, err>>
    /\ UNCHANGED apiVars
    /\ UNCHANGED processed
    /\ UNCHANGED handled

----------------------------------------------------------------------------
(* The file system between runs *)

\* a file under the input directory is written, removed or made unreadable
EnvWrite ==
    /\ pc = "idle"
    /\ root
    /\ \E p \in Paths, f \in FileStates :
         /\ f # disk[p]
         /\ disk' = [disk EXCEPT ![p] = f]
    /\ rescan' = FALSE
    /\ ClearReport
    /\ UNCHANGED <<manifestCols, manifest, raw, schemas, root, pc, queue, cur,
                   pending>>
    /\ UNCHANGED apiVars
    /\ UNCHANGED processed

\* the input directory is removed with all it holds, or created empty
EnvRoot ==
    /\ pc = "idle"
    /\ root' = ~root
    /\ disk' = [p \in Paths |-> Absent]
    /\ rescan' = FALSE
    /\ ClearReport
    /\ UNCHANGED <<manifestCols, manifest, raw, schemas, pc, queue, cur,
                   pending>>
    /\ UNCHANGED apiVars
    /\ UNCHANGED processed

----------------------------------------------------------------------------
(* TransformationPipeline.run() *)

TransformStart ==
    /\ pc = "idle"
    /\ LET pending_files_data == find_pending_files(manifestCols, manifest) IN
       IF pending_files_data = {}
       THEN /\ lastRun' = "transform_empty"
            /\ closed' = Closes("transform_aborted")
            /\ UNCHANGED <<pc, pending>>
       ELSE /\ pc' = "process"
            /\ pending' = pending_files_data
            /\ lastRun' = "none"
            /\ closed' = <<>>
    /\ err' = NoErr
    /\ scanned_count' = 0
    /\ added_count' = 0
    /\ skipped_count' = 0
    /\ UNCHANGED <<manifestCols, manifest, raw, schemas, root, disk, queue, cur,
                   rescan>>
    /\ UNCHANGED apiVars
    /\ UNCHANGED processed
    /\ handled' = NoFile

\* the effect of one iteration whose outcome is out
LoopIteration(file_data, out) ==
    /\ handled' = [file |-> Some(file_data.file_hash), calls |-> out.calls]
    /\ processed' = out.store
    /\ IF out.exc # NoErr
       THEN /\ Abort("transform_aborted", out.exc)
            /\ UNCHANGED manifest
       ELSE /\ manifest' = update_status(manifest, file_data.file_hash, out.status)
            /\ pending' = pending \ {file_data}
            /\ UNCHANGED <<pc, err, lastRun, closed, queue, cur>>
    /\ UNCHANGED <<manifestCols, raw, schemas, root, disk, scanned_count,
                   added_count, skipped_count, rescan, call>>

TransformStep ==
    /\ pc = "process"
    /\ \E file_data \in pending :
         LoopIteration(file_data,
                       ProcessFile(schemas, raw, file_data.file_hash, processed))
    /\ UNCHANGED unit

TransformFinish ==
    /\ pc = "process"
    /\ pending = {}
    /\ pc' = "idle"
    /\ lastRun' = "transform_completed"
    /\ closed' = Closes("transform_aborted")
    /\ UNCHANGED <<manifestCols, manifest, raw, schemas, root, disk, queue, cur,
                   pending, scanned_count, added_count, skipped_count, err,
                   rescan>>
    /\ UNCHANGED apiVars
    /\ UNCHANGED processed
    /\ UNCHANGED handled

----------------------------------------------------------------------------
(* The stores before the first run *)

KnownHashes == {sha256_file(c) : c \in Contents}

ContentOf(h) == CHOOSE c \in Contents : sha256_file(c) = h

\* a file_manifest table created and filled outside ManifestManager, with the
\* column file_path, as the transformation tests and example do
ExtManifests ==
    {m \in SUBSET {ManifestRow(h, "/fake/file", s) :
                      h \in KnownHashes,
                      s \in {"loaded_to_raw_lake", "processed"}} :
        /\ Cardinality(m) <= MaxExtRows
        /\ \A r1, r2 \in m : r1.file_hash = r2.file_hash => r1 = r2}

ExtRaw(m) ==
    {{RawRow(h, ContentOf(h)) : h \in H} : H \in SUBSET {r.file_hash : r \in m}}

NoCall == [op |-> "none", file_hash |-> 0, arg |-> ""]

NoUnit == [op |-> "none"]

InitCommon ==
    /\ schemas \in Registries
    /\ root = TRUE
    /\ disk = [p \in Paths |-> Absent]
    /\ pc = "idle"
    /\ queue = <<>>
    /\ cur = NoneVal
    /\ pending = {}
    /\ scanned_count = 0
    /\ added_count = 0
    /\ skipped_count = 0
    /\ err = NoErr
    /\ lastRun = "none"
    /\ closed = <<>>
    /\ rescan = FALSE
    /\ call = NoCall
    /\ handled = NoFile
    /\ processed = {}
    /\ unit = NoUnit

\* no database yet: ManifestManager._initialize_schema creates file_manifest
InitOwn ==
    /\ manifestCols = "source_path"
    /\ manifest = {}
    /\ raw = {}

InitExt ==
    /\ manifestCols = "file_path"
    /\ manifest \in ExtManifests
    /\ raw \in ExtRaw(manifest)

Init == InitCommon /\ (InitOwn \/ InitExt)

Next ==
    \/ IngestStart
    \/ IngestSkipUnreadable
    \/ IngestSkipExisting
    \/ IngestRegister
    \/ IngestSave
    \/ IngestUpdate
    \/ IngestFinish
    \/ TransformStart
    \/ TransformStep
    \/ TransformFinish
    \/ EnvWrite
    \/ EnvRoot

Spec == Init /\ [][Next]_vars

----------------------------------------------------------------------------
(* ManifestManager called directly, on the table it created *)

Statuses ==
    {"registered", "loaded_to_raw_lake", "processed", "parse_error_no_content",
     "parse_error_schema_not_identified", "parse_error_schema_missing",
     "parse_error_parser_failed", "validation_error", "load_error"}

ApiHashes == {sha256_file(c) : c \in DiskContents}

pipelineVars == <<manifestCols, raw, schemas, root, disk, pc, queue, cur, pending,
                  scanned_count, added_count, skipped_count, lastRun, closed, rescan,
                  handled, processed, unit>>

ApiRegister ==
    /\ \E h \in ApiHashes, p \in Paths :
         LET r == register_file(manifestCols, manifest, h, p) IN
         /\ manifest' = r.table
         /\ err' = r.err
         /\ call' = [op |-> "register_file", file_hash |-> h, arg |-> p]
    /\ UNCHANGED pipelineVars

ApiUpdate ==
    /\ \E h \in ApiHashes, s \in Statuses :
         /\ manifest' = update_status(manifest, h, s)
         /\ err' = NoErr
         /\ call' = [op |-> "update_status", file_hash |-> h, arg |-> s]
    /\ UNCHANGED pipelineVars

InitManifest == InitCommon /\ InitOwn

NextManifest == ApiRegister \/ ApiUpdate

SpecManifest == InitManifest /\ [][NextManifest]_vars

----------------------------------------------------------------------------
(* run() with stand-ins for its components: each call returns or raises    *)
(* whatever its signature allows                                            *)

StandInFrame == [columns |-> <<"id">>, rows |-> << <<Some(<<49>>)>> >>]

EmptyFrame == [columns |-> <<"id">>, rows |-> <<>>]

Returns(v) == [exc |-> NoErr, value |-> v]
Raises(e) == [exc |-> e, value |-> NoneVal]
NotCalled == Raises("not called")

StandInParsed == {Returns(NoneVal), Returns(Some(StandInFrame)),
                  Returns(Some(EmptyFrame))}

StandInValidated == {Returns(NoneVal), Returns(Some(StandInFrame)),
                     Returns(Some(EmptyFrame)), Raises("AttributeError")}

\* a loader that accepted the call has written the table
StandInTable(df, table_name) ==
    [name |-> table_name, columns |-> df.columns, key |-> <<>>,
     rows |-> {df.rows[i] : i \in DOMAIN df.rows}]

StandInLoaded(store, df, table_name) ==
    {[exc |-> NoErr,
      store |-> {t \in store : t.name # table_name}
                    \cup {StandInTable(df, table_name)}],
     [exc |-> "duckdb.Error", store |-> store],
     [exc |-> "TypeError", store |-> store]}

\* what a component returns is drawn only where the component is called
IfCalled(called, results, none) == IF called THEN results ELSE {none}

StandInStep ==
    /\ pc = "process"
    /\ \E file_data \in pending :
       \E raw_content \in {NoneVal, Some(<<65>>)} :
       \E schema_name \in IfCalled(~IsNone(raw_content),
                                   {NoneVal, Some(ListSchema.name)}, NoneVal) :
       \E schema_definition \in IfCalled(~IsNone(schema_name),
                                         {NoneVal, Some(ListSchema)}, NoneVal) :
       \E parsed \in IfCalled(~IsNone(schema_definition), StandInParsed, NotCalled) :
       \E validated_df \in IfCalled(~IsNone(parsed.value), StandInValidated,
                                    NotCalled) :
       \E loaded \in IfCalled(~IsNone(validated_df.value),
                              StandInLoaded(processed, StandInFrame,
                                            ListSchema.table_name),
                              [exc |-> NotCalled.exc, store |-> processed]) :
         /\ LoopIteration(file_data,
                          LoopBody(raw_content, schema_name, schema_definition,
                                   parsed, validated_df, loaded, processed))
         /\ unit' = [op |-> "stand_in",
                     validated_df |-> IF Len(handled'.calls) >= 4
                                      THEN validated_df ELSE NotCalled,
                     loaded |-> IF Len(handled'.calls) >= 5
                                THEN loaded.exc ELSE NotCalled.exc]

\* a manifest as the transformation tests prepare it; the raw store is not
\* read, its reader is a stand-in
InitLoop ==
    /\ InitCommon
    /\ manifestCols = "file_path"
    /\ manifest \in ExtManifests
    /\ raw = {}

NextLoop == TransformStart \/ StandInStep \/ TransformFinish

SpecLoop == InitLoop /\ [][NextLoop]_vars

----------------------------------------------------------------------------
(* DataValidator.validate called on its own *)

\* rows of a frame given to validate
MaxRows == 2

\* NaN, "1", "x" and "1.5"
Cells == {NoneVal, Some(<<49>>), Some(<<120>>), Some(<<49, 46, 53>>)}

RECURSIVE RowsUpTo(_, _)
RowsUpTo(n, ncols) ==
    IF n = 0 THEN {<<>>}
    ELSE RowsUpTo(n - 1, ncols)
             \cup {Append(rs, row) : rs \in RowsUpTo(n - 1, ncols),
                                     row \in [1..ncols -> Cells]}

Frames == {[columns |-> <<"id", "name">>, rows |-> rs] : rs \in RowsUpTo(MaxRows, 2)}

ColumnSpecs == [dtype : {"integer", "float", "string"}, nullable : BOOLEAN]

\* schemas over the columns of the frames, and over a column they lack
ValidatorSchemas ==
    {[columns |-> [kind |-> "dict", names |-> <<"id", "name">>,
                   specs |-> <<a, [dtype |-> "string", nullable |-> n]>>]] :
         a \in ColumnSpecs, n \in BOOLEAN}
    \cup {[columns |-> [kind |-> "dict", names |-> <<"missing", "id">>,
                        specs |-> <<[dtype |-> "integer", nullable |-> FALSE], a>>]] :
              a \in ColumnSpecs}

\* validate keeps no state between calls: one call on each input
CallValidate ==
    /\ unit = NoUnit
    /\ \E dataframe \in Frames, schema \in ValidatorSchemas :
         unit' = [op |-> "validate", dataframe |-> dataframe, schema |-> schema,
                  result |-> validate(dataframe, schema)]
    /\ UNCHANGED <<call, processed>>
    /\ UNCHANGED <<manifestCols, manifest, raw, schemas, root, disk, pc, queue,
                   cur, pending, scanned_count, added_count, skipped_count, err,
                   lastRun, closed, rescan, handled>>

SpecValidator == InitManifest /\ [][CallValidate]_vars

----------------------------------------------------------------------------
(* ProcessedDBLoader.load_dataframe called on its own.  A table of the      *)
(* processed store is [name, columns, defs, key, rows]: its columns in      *)
(* order, the type and NOT NULL modifier each was created with, the columns  *)
(* of its PRIMARY KEY (none: <<>>) and its rows in insertion order, each a   *)
(* tuple over the columns.  Every cell is a string or NULL.                  *)

SeqToSet(q) == {q[i] : i \in DOMAIN q}

HasTable(store, table_name) == \E t \in store : t.name = table_name
TableOf(store, table_name) == CHOOSE t \in store : t.name = table_name
PutTable(store, t) == {x \in store : x.name # t.name} \cup {t}

\* position of a column in a sequence of column names
Position(columns, col) == CHOOSE i \in DOMAIN columns : columns[i] = col

\* the key of a tuple laid out as columns
KeyOf(row, columns, key) == [k \in DOMAIN key |-> row[Position(columns, key[k])]]

\* the column definitions a table gets that is created from the DataFrame
\* (CREATE TABLE ... AS SELECT, to_sql): the type the engine infers, which is
\* VARCHAR for the columns of strings of the model, and no NOT NULL
InferredDefs(dataframe) ==
    [c \in DOMAIN dataframe.columns |-> [db_type |-> "VARCHAR", not_null |-> FALSE]]

\* dataframe.to_sql(if_exists='append', index=False): the table is created if
\* it is missing and the rows are inserted under their column names
to_sql(store, dataframe, table_name) ==
    LET t == IF HasTable(store, table_name) THEN TableOf(store, table_name)
             ELSE [name |-> table_name, columns |-> dataframe.columns,
                   defs |-> InferredDefs(dataframe),
                   key |-> <<>>, rows |-> <<>>]
        named == [i \in DOMAIN dataframe.rows |->
                     [c \in DOMAIN t.columns |->
                         IF t.columns[c] \in SeqToSet(dataframe.columns)
                         THEN dataframe.rows[i][Position(dataframe.columns, t.columns[c])]
                         ELSE NoneVal]]
        all == t.rows \o named
    IN  IF ~(SeqToSet(dataframe.columns) \subseteq SeqToSet(t.columns))
        THEN [exc |-> "BinderException", store |-> store]
        ELSE IF /\ t.key # <<>>
                /\ \/ \E i \in DOMAIN all : \E k \in DOMAIN t.key :
                          IsNone(KeyOf(all[i], t.columns, t.key)[k])
                   \/ \E i, j \in DOMAIN all :
                          /\ i # j
                          /\ KeyOf(all[i], t.columns, t.key) = KeyOf(all[j], t.columns, t.key)
        THEN [exc |-> "ConstraintException", store |-> store]
        ELSE [exc |-> NoErr, store |-> PutTable(store, [t EXCEPT !.rows = all])]

\* lines 169-184: the column definitions of the typed CREATE TABLE IF NOT
\* EXISTS statement, one for each declared column the DataFrame has: the
\* db_type of its spec, VARCHAR when it has none, and NOT NULL when its
\* nullable is false
create_table_sql_parts(dataframe, schema_definition) ==
    IF schema_definition.columns.kind # "dict" THEN <<>>
    ELSE LET names == schema_definition.columns.names
             specs == schema_definition.columns.specs
             present == SelectSeq([k \in DOMAIN names |-> k],
                                  LAMBDA k : names[k] \in SeqToSet(dataframe.columns))
         IN  [i \in DOMAIN present |->
                 LET col_def == specs[present[i]] IN
                 [col_name |-> names[present[i]],
                  db_type |-> IF "db_type" \in DOMAIN col_def
                              THEN col_def.db_type ELSE "VARCHAR",
                  not_null |-> IF "nullable" \in DOMAIN col_def
                               THEN ~col_def.nullable ELSE FALSE]]

\* lines 99-204: CREATE TABLE ... AS SELECT * FROM the view WHERE 1=0 gives a
\* missing table the columns of the DataFrame, in its order; the typed CREATE
\* TABLE IF NOT EXISTS that follows finds the table present; ALTER TABLE ADD
\* PRIMARY KEY sets the key where the engine supports it (engine.alter_pk), and
\* its failure is only reported
EnsureTable(store, dataframe, table_name, schema_definition, engine) ==
    IF HasTable(store, table_name) THEN store
    ELSE LET columns_with_types ==
                 IF schema_definition.columns.kind = "dict"
                 THEN SelectSeq(schema_definition.columns.names,
                                LAMBDA col_name : col_name \in SeqToSet(dataframe.columns))
                 ELSE <<>>
             unique_key == schema_definition.unique_key
         IN  PutTable(store,
                 [name |-> table_name, columns |-> dataframe.columns,
                  defs |-> InferredDefs(dataframe),
                  key |-> IF /\ columns_with_types # <<>>
                             /\ engine.alter_pk
                             /\ SeqToSet(unique_key) \subseteq SeqToSet(dataframe.columns)
                          THEN unique_key ELSE <<>>,
                  rows |-> <<>>])

\* one row of INSERT ... ON CONFLICT (key) DO UPDATE SET col = excluded.col for
\* every column of the DataFrame
RECURSIVE UpsertRows(_, _, _, _)
UpsertRows(rows, incoming, columns, key) ==
    IF incoming = <<>> THEN rows
    ELSE LET new == Head(incoming)
             hit == {i \in DOMAIN rows :
                        KeyOf(rows[i], columns, key) = KeyOf(new, columns, key)}
         IN  UpsertRows(IF hit = {} THEN Append(rows, new)
                        ELSE [i \in DOMAIN rows |-> IF i \in hit THEN new ELSE rows[i]],
                        Tail(incoming), columns, key)

\* INSERT INTO table SELECT * FROM the view ON CONFLICT ...: the columns of the
\* view are taken by position.  The SET list names every column of the
\* DataFrame, those of the key included, which some engines refuse
\* (engine.set_key)
Upsert(store, dataframe, table_name, schema_definition, engine) ==
    LET t == TableOf(store, table_name)
        unique_key == schema_definition.unique_key
        keys == [i \in DOMAIN dataframe.rows |->
                    KeyOf(dataframe.rows[i], t.columns, unique_key)]
    IN  IF \/ SeqToSet(unique_key) # SeqToSet(t.key)
           \/ t.key = <<>>
           \/ Len(dataframe.columns) # Len(t.columns)
           \/ ~(SeqToSet(dataframe.columns) \subseteq SeqToSet(t.columns))
           \/ ~engine.set_key /\ SeqToSet(unique_key) \cap SeqToSet(dataframe.columns) # {}
        THEN [exc |-> "BinderException", store |-> store]
        ELSE IF \E i \in DOMAIN keys : \E k \in DOMAIN keys[i] : IsNone(keys[i][k])
        THEN [exc |-> "ConstraintException", store |-> store]
        ELSE IF \E i, j \in DOMAIN keys : i # j /\ keys[i] = keys[j]
        THEN [exc |-> "InvalidInputException", store |-> store]
        ELSE [exc |-> NoErr,
              store |-> PutTable(store,
                  [t EXCEPT !.rows = UpsertRows(@, dataframe.rows, t.columns, unique_key)])]

\* a column spec is a JSON object; one that is not (a bare type name, say)
\* is written [text |-> ...]
IsMapping(col_def) == "text" \notin DOMAIN col_def

\* col_def.get('db_type', 'VARCHAR') at line 140 raises AttributeError: the
\* table is missing, the columns are an object, and the spec of a column of
\* the DataFrame is no object
SpecIsNoObject(store, dataframe, table_name, schema_definition) ==
    /\ ~HasTable(store, table_name)
    /\ schema_definition.columns.kind = "dict"
    /\ \E i \in DOMAIN schema_definition.columns.names :
           /\ schema_definition.columns.names[i] \in SeqToSet(dataframe.columns)
           /\ ~IsMapping(schema_definition.columns.specs[i])

\* lines 211-224 and 228-234: after the upsert statement, and in the handlers
\* of duckdb.Error and Exception, the view is unregistered
Finish(r, ops, table_name) ==
    [exc |-> r.exc, store |-> r.store, ops |-> Append(ops, "unregister"),
     views |-> {}]

\* faulty variant: a schema without unique key goes the upsert way as well
load_dataframe_always_upserts(store, dataframe, table_name, schema_definition, engine) ==
    IF dataframe.rows = <<>> \/ dataframe.columns = <<>>
    THEN [exc |-> NoErr, store |-> store, ops |-> <<>>, views |-> {}]
    ELSE Finish(Upsert(EnsureTable(store, dataframe, table_name, schema_definition,
                                   engine),
                       dataframe, table_name, schema_definition, engine),
                <<"register", "upsert">>, table_name)

\* faulty variant: the key is also retrofitted to a table that exists
\* without one
AlterIsReachedWithoutKey(store, dataframe, table_name, schema_definition) ==
    /\ \/ ~HasTable(store, table_name)
       \/ TableOf(store, table_name).key = <<>>
    /\ schema_definition.columns.kind = "dict"
    /\ \E col_name \in SeqToSet(schema_definition.columns.names) :
           col_name \in SeqToSet(dataframe.columns)

\* the ALTER TABLE step is reached: the table is missing and the schema
\* declares, as an object, a column of the DataFrame
AlterIsReached(store, dataframe, table_name, schema_definition) ==
    /\ ~HasTable(store, table_name)
    /\ schema_definition.columns.kind = "dict"
    /\ \E col_name \in SeqToSet(schema_definition.columns.names) :
           col_name \in SeqToSet(dataframe.columns)

\* faulty variant: the error of ALTER TABLE ADD PRIMARY KEY ends the call
load_dataframe_alter_error_raises(store, dataframe, table_name, schema_definition, engine) ==
    IF dataframe.rows = <<>> \/ dataframe.columns = <<>>
    THEN [exc |-> NoErr, store |-> store, ops |-> <<>>, views |-> {}]
    ELSE IF schema_definition.unique_key = <<>>
    THEN LET r == to_sql(store, dataframe, table_name)
         IN  [exc |-> r.exc, store |-> r.store, ops |-> <<"to_sql">>, views |-> {}]
    ELSE IF SpecIsNoObject(store, dataframe, table_name, schema_definition)
    THEN [exc |-> "AttributeError",
          store |-> PutTable(store, [name |-> table_name,
                                     columns |-> dataframe.columns,
                                     defs |-> InferredDefs(dataframe),
                                     key |-> <<>>, rows |-> <<>>]),
          ops |-> <<"register", "create">>, views |-> {table_name}]
    ELSE IF /\ AlterIsReached(store, dataframe, table_name, schema_definition)
            /\ ~engine.alter_pk
    THEN [exc |-> "duckdb.Error",
          store |-> EnsureTable(store, dataframe, table_name, schema_definition,
                                engine),
          ops |-> <<"register", "create", "alter", "unregister">>, views |-> {}]
    ELSE Finish(Upsert(EnsureTable(store, dataframe, table_name, schema_definition,
                                   engine),
                       dataframe, table_name, schema_definition, engine),
                <<"register">>
                    \o (IF HasTable(store, table_name) THEN <<>> ELSE <<"create">>)
                    \o (IF AlterIsReached(store, dataframe, table_name,
                                          schema_definition)
                        THEN <<"alter">> ELSE <<>>)
                    \o <<"upsert">>,
                table_name)

\* faulty variant: load_dataframe without its early return on an empty
\* DataFrame
load_dataframe_without_empty_check(store, dataframe, table_name, schema_definition, engine) ==
    IF schema_definition.unique_key = <<>>
    THEN LET r == to_sql(store, dataframe, table_name)
         IN  [exc |-> r.exc, store |-> r.store, ops |-> <<"to_sql">>, views |-> {}]
    ELSE Finish(Upsert(EnsureTable(store, dataframe, table_name, schema_definition,
                                   engine),
                       dataframe, table_name, schema_definition, engine),
                <<"register">>
                    \o (IF HasTable(store, table_name) THEN <<>> ELSE <<"create">>)
                    \o <<"upsert">>,
                table_name)

\* what load_dataframe raises and the store it leaves, the connection being
\* open; every statement is committed as it is executed.  ops are the calls
\* made on the DataFrame and the connection, views the tables whose view
\* temp_view_<table> is registered when the call ends
load_dataframe(store, dataframe, table_name, schema_definition, engine) ==
    IF dataframe.rows = <<>> \/ dataframe.columns = <<>>
    THEN [exc |-> NoErr, store |-> store, ops |-> <<>>, views |-> {}]
    ELSE IF schema_definition.unique_key = <<>>
    THEN LET r == to_sql(store, dataframe, table_name)
         IN  [exc |-> r.exc, store |-> r.store, ops |-> <<"to_sql">>, views |-> {}]
    ELSE IF SpecIsNoObject(store, dataframe, table_name, schema_definition)
    THEN [exc |-> "AttributeError",
          store |-> PutTable(store, [name |-> table_name,
                                     columns |-> dataframe.columns,
                                     defs |-> InferredDefs(dataframe),
                                     key |-> <<>>, rows |-> <<>>]),
          ops |-> <<"register", "create">>, views |-> {table_name}]
    ELSE Finish(Upsert(EnsureTable(store, dataframe, table_name, schema_definition,
                                   engine),
                       dataframe, table_name, schema_definition, engine),
                <<"register">>
                    \o (IF HasTable(store, table_name) THEN <<>> ELSE <<"create">>)
                    \o (IF AlterIsReached(store, dataframe, table_name,
                                          schema_definition)
                        THEN <<"alter">> ELSE <<>>)
                    \o <<"upsert">>,
                table_name)

\* the engines a build can run on; the engine is the same in every call
Engines == [alter_pk : BOOLEAN, set_key : BOOLEAN]

MaxLoads == 2

MaxBatch == 2

LoaderKeys == {Some(<<49>>), Some(<<50>>)}

\* rows <<a, b>> of two cells; the first may be NULL
LoaderRows == {<<a, b>> : a \in LoaderKeys \cup {NoneVal}, b \in LoaderKeys}

RECURSIVE LoaderRowsUpTo(_)
LoaderRowsUpTo(n) ==
    IF n = 0 THEN {<<>>}
    ELSE LoaderRowsUpTo(n - 1)
             \cup {Append(rs, row) : rs \in LoaderRowsUpTo(n - 1),
                                     row \in LoaderRows}

\* DataFrames of the columns id and name, in either order
LoaderFrames ==
    {[columns |-> columns, rows |-> rows] :
        columns \in {<<"id", "name">>, <<"name", "id">>},
        rows \in LoaderRowsUpTo(MaxBatch)}

\* schemas of one table with a unique key: with the columns as an object and
\* with the columns as a list
LoaderSchemas ==
    {DictSchema,
     [DictSchema EXCEPT !.columns = [kind |-> "list", names |-> <<"id", "name">>,
                                      specs |-> <<>>]]}

\* a row of a DataFrame or table as a record over its column names
Named(row, columns) == [col \in SeqToSet(columns) |-> row[Position(columns, col)]]

Loads == IF unit.op = "load_dataframe" THEN unit.n ELSE 0

\* the rows given so far by loads that returned, the latest for each key
Latest == IF unit.op = "load_dataframe" THEN unit.latest ELSE {}

CallLoad ==
    /\ Loads < MaxLoads
    /\ \E dataframe \in LoaderFrames, schema_definition \in LoaderSchemas,
          engine \in (IF Loads = 0 THEN Engines ELSE {unit.engine}) :
          LET r == load_dataframe(processed, dataframe, DictSchema.table_name,
                                  schema_definition, engine)
              given == {Named(dataframe.rows[i], dataframe.columns) :
                            i \in DOMAIN dataframe.rows}
          IN  /\ processed' = r.store
              /\ unit' = [op |-> "load_dataframe", n |-> Loads + 1, exc |-> r.exc,
                           engine |-> engine,
                           latest |-> IF r.exc = NoErr
                                      THEN {x \in Latest :
                                               \A g \in given : g.id # x.id} \cup given
                                      ELSE Latest]
    /\ UNCHANGED <<manifestCols, manifest, raw, schemas, root, disk, pc, queue, cur,
                   pending, scanned_count, added_count, skipped_count, err, lastRun, closed,
                   rescan, call, handled>>

SpecLoader == InitManifest /\ [][CallLoad]_vars

\* single calls of load_dataframe with what each call did: schemas with and
\* without unique key, and one whose column spec is a bare type name

\* rows of the key "1" with the names "1" and "2"
CallRows == {<<Some(<<49>>), Some(<<49>>)>>, <<Some(<<49>>), Some(<<50>>)>>}

RECURSIVE CallRowsUpTo(_)
CallRowsUpTo(n) ==
    IF n = 0 THEN {<<>>}
    ELSE CallRowsUpTo(n - 1)
             \cup {Append(rs, row) : rs \in CallRowsUpTo(n - 1), row \in CallRows}

CallFrames == {[columns |-> <<"id", "name">>, rows |-> rows] :
                  rows \in CallRowsUpTo(MaxBatch)}

\* the schema of the fixture of the pipeline's tests, with its db_type hints
TypedSchema ==
    [DictSchema EXCEPT !.columns.specs =
        <<[dtype |-> "integer", nullable |-> FALSE, db_type |-> "INTEGER"],
          [dtype |-> "string", nullable |-> TRUE, db_type |-> "VARCHAR"]>>]

CallSchemas ==
    LoaderSchemas
        \cup {TypedSchema,
              [DictSchema EXCEPT !.unique_key = <<>>],
              [DictSchema EXCEPT !.columns.specs = <<[text |-> "INTEGER"],
                                                     [text |-> "VARCHAR"]>>]}

CallCount == IF unit.op = "load_call" THEN unit.n ELSE 0

CallLoadOnce ==
    /\ CallCount < MaxLoads
    /\ \E dataframe \in CallFrames, schema_definition \in CallSchemas,
          engine \in (IF CallCount = 0 THEN Engines ELSE {unit.engine}) :
          LET r == load_dataframe(processed, dataframe, DictSchema.table_name,
                                  schema_definition, engine)
          IN  /\ processed' = r.store
              /\ unit' = [op |-> "load_call", n |-> CallCount + 1, engine |-> engine,
                           dataframe |-> dataframe,
                           unique_key |-> schema_definition.unique_key,
                           declared |-> IF /\ "create" \in SeqToSet(r.ops)
                                           /\ r.exc # "AttributeError"
                                        THEN create_table_sql_parts(dataframe,
                                                 schema_definition)
                                        ELSE <<>>,
                           exc |-> r.exc, ops |-> r.ops, views |-> r.views]
    /\ UNCHANGED <<manifestCols, manifest, raw, schemas, root, disk, pc, queue, cur,
                   pending, scanned_count, added_count, skipped_count, err, lastRun, closed,
                   rescan, call, handled>>

SpecLoadCalls == InitManifest /\ [][CallLoadOnce]_vars

----------------------------------------------------------------------------
(* SchemaManager.identify_schema_from_content called on its own, on a       *)
(* manager built over a registry of its own as the tests build it.           *)

MaxSchemas == 2
MaxKeywords == 2

\* "a" and "B"
Keywords == {<<97>>, <<66>>}

RECURSIVE KeywordLists(_)
KeywordLists(n) ==
    IF n = 0 THEN {<<>>}
    ELSE KeywordLists(n - 1)
             \cup {Append(kws, kw) : kws \in KeywordLists(n - 1), kw \in Keywords}

SchemaNames == <<"schema_A", "schema_B", "schema_C">>

\* registries of up to n schemas with different names, in every order
RECURSIVE RegistriesUpTo(_)
RegistriesUpTo(n) ==
    IF n = 0 THEN {<<>>}
    ELSE RegistriesUpTo(n - 1)
             \cup {Append(reg, [name |-> SchemaNames[j], keywords |-> kws]) :
                       reg \in {r \in RegistriesUpTo(n - 1) : Len(r) = n - 1},
                       j \in 1..MaxSchemas,
                       kws \in KeywordLists(MaxKeywords)}

UniqueNames(reg) == \A i, j \in DOMAIN reg : reg[i].name = reg[j].name => i = j

SchemaRegistries == {reg \in RegistriesUpTo(MaxSchemas) : UniqueNames(reg)}

\* "ab", "A" and the contents of the pipeline
SchemaContents == Contents \cup {<<97, 98>>, <<65>>}

Reverse(q) == [i \in DOMAIN q |-> q[Len(q) + 1 - i]]

\* the registry with every keyword list written in the opposite order
ReverseKeywords(reg) == [i \in DOMAIN reg |-> [reg[i] EXCEPT !.keywords = Reverse(@)]]

\* identify_schema_from_content keeps no state between calls: one call on each
\* input, and one on the registry with the keyword lists reversed
CallIdentify ==
    /\ unit = NoUnit
    /\ \E reg \in SchemaRegistries, raw_content \in SchemaContents :
         unit' = [op |-> "identify", schemas |-> reg, raw_content |-> raw_content,
                  result |-> identify_schema_from_content(reg, raw_content),
                  reversed |-> identify_schema_from_content(ReverseKeywords(reg),
                                                            raw_content)]
    /\ UNCHANGED <<call, processed>>
    /\ UNCHANGED <<manifestCols, manifest, raw, schemas, root, disk, pc, queue,
                   cur, pending, scanned_count, added_count, skipped_count, err,
                   lastRun, closed, rescan, handled>>

SpecSchemas == InitManifest /\ [][CallIdentify]_vars

----------------------------------------------------------------------------
(* DataParser.parse called on its own, on schemas that carry csv_skip_rows   *)
(* as the tests of the parser write them.                                    *)

MaxLines == 2
MaxSkip == 3

\* "1", "2,3" and "A,1,x"
ParserLines == {<<49>>, <<50, 44, 51>>, <<65, 44, 49, 44, 120>>}

\* texts of 1..n lines, each ended by a newline
RECURSIVE TextsUpTo(_)
TextsUpTo(n) ==
    IF n = 0 THEN {<<>>}
    ELSE TextsUpTo(n - 1)
             \cup {text \o line \o <<10>> : text \in TextsUpTo(n - 1),
                                             line \in ParserLines}

\* the texts, with and without the newline of the last line, and the contents
\* of the pipeline
ParserContents ==
    Contents \cup TextsUpTo(MaxLines)
             \cup {SubSeq(text, 1, Len(text) - 1) : text \in TextsUpTo(MaxLines) \ {<<>>}}

\* the schemas of the registry with the key csv_skip_rows added
ParserSchemas ==
    {[name |-> schema.name, keywords |-> schema.keywords,
      encoding |-> schema.encoding, delimiter |-> schema.delimiter,
      columns |-> schema.columns, table_name |-> schema.table_name,
      unique_key |-> schema.unique_key, csv_skip_rows |-> csv_skip_rows] :
        schema \in {ListSchema, DictSchema}, csv_skip_rows \in 0..MaxSkip}

\* parse keeps no state between calls: one call on each input
CallParse ==
    /\ unit = NoUnit
    /\ \E raw_content \in ParserContents, schema \in ParserSchemas :
         unit' = [op |-> "parse", raw_content |-> raw_content, schema |-> schema,
                  result |-> parse(raw_content, schema)]
    /\ UNCHANGED <<call, processed>>
    /\ UNCHANGED <<manifestCols, manifest, raw, schemas, root, disk, pc, queue,
                   cur, pending, scanned_count, added_count, skipped_count, err,
                   lastRun, closed, rescan, handled>>

SpecParser == InitManifest /\ [][CallParse]_vars

----------------------------------------------------------------------------
(* RawLakeReader.get_raw_content called on its own, on a raw store that      *)
(* was filled before; the reader may be closed between two calls.            *)

\* duckdb.CatalogException (no table raw_files) and the Exception the tests
\* make fetchone() raise
ReaderFaults == {NoErr, "CatalogException", "Exception"}

ReaderCon == IF unit = NoUnit THEN "open" ELSE unit.con

CallGetRawContent ==
    /\ \E file_hash \in KnownHashes, fault \in ReaderFaults :
         unit' = [op |-> "get_raw_content", con |-> ReaderCon,
                  file_hash |-> file_hash, fault |-> fault,
                  result |-> get_raw_content_on(ReaderCon, fault, raw, file_hash)]
    /\ UNCHANGED <<call, processed>>
    /\ UNCHANGED <<manifestCols, manifest, raw, schemas, root, disk, pc, queue,
                   cur, pending, scanned_count, added_count, skipped_count, err,
                   lastRun, closed, rescan, handled>>

\* RawLakeReader.close(): the connection is closed, self.con stays set
CallReaderClose ==
    /\ ReaderCon = "open"
    /\ unit' = [op |-> "close", con |-> "closed"]
    /\ UNCHANGED <<call, processed>>
    /\ UNCHANGED <<manifestCols, manifest, raw, schemas, root, disk, pc, queue,
                   cur, pending, scanned_count, added_count, skipped_count, err,
                   lastRun, closed, rescan, handled>>

InitReader == InitCommon /\ InitExt

SpecReader == InitReader /\ [][CallGetRawContent \/ CallReaderClose]_vars

----------------------------------------------------------------------------
(* FileScanner.scan_directory called on its own, on a directory that exists *)

\* a directory of up to two entries, each missing, unreadable or a file
ScanDisks == [Paths -> {Absent, Unreadable} \cup {File(c) : c \in Contents}]

\* scan_directory keeps no state between calls: one call on each directory
CallScan ==
    /\ unit = NoUnit
    /\ \E d \in ScanDisks : \E all_files \in AllFiles(d) :
         unit' = [op |-> "scan_directory", disk |-> d, all_files |-> all_files,
                  result |-> scan_directory(d, all_files)]
    /\ UNCHANGED <<call, processed>>
    /\ UNCHANGED <<manifestCols, manifest, raw, schemas, root, disk, pc, queue,
                   cur, pending, scanned_count, added_count, skipped_count, err,
                   lastRun, closed, rescan, handled>>

SpecScanner == InitManifest /\ [][CallScan]_vars

----------------------------------------------------------------------------
(* TransformationPipeline.run() with the SchemaManager built from a schema   *)
(* file that may be missing or unreadable                                    *)

\* the pipeline is constructed over stores filled outside it; unit keeps the
\* schema file its SchemaManager was built from
InitSchemaFile ==
    /\ \E schema_file \in SchemaFiles :
           /\ unit = [op |-> "SchemaManager", schema_file |-> schema_file]
           /\ schemas = SchemaManager(schema_file)
    /\ root = TRUE
    /\ disk = [p \in Paths |-> Absent]
    /\ pc = "idle"
    /\ queue = <<>>
    /\ cur = NoneVal
    /\ pending = {}
    /\ scanned_count = 0
    /\ added_count = 0
    /\ skipped_count = 0
    /\ err = NoErr
    /\ lastRun = "none"
    /\ closed = <<>>
    /\ rescan = FALSE
    /\ call = NoCall
    /\ handled = NoFile
    /\ processed = {}
    /\ InitExt

NextSchemaFile == TransformStart \/ TransformStep \/ TransformFinish

SpecSchemaFile == InitSchemaFile /\ [][NextSchemaFile]_vars

----------------------------------------------------------------------------
(* IngestionPipeline.run() on a manifest database that may fail to write    *)
(* a status                                                                  *)

\* update_status of a file just stored, the database failing or not
IngestUpdateMayFail ==
    /\ pc = "update"
    /\ \E fault \in {NoErr, "duckdb.Error"} :
         LET r == update_status_call(manifest, Val(cur).file_hash,
                                     "loaded_to_raw_lake", fault)
         IN  /\ manifest' = r.table
             /\ IF r.err # NoErr
                THEN /\ Abort("ingest_aborted", r.err)
                     /\ UNCHANGED added_count
                ELSE /\ added_count' = added_count + 1
                     /\ pc' = "scan"
                     /\ cur' = NoneVal
                     /\ UNCHANGED <<queue, pending, err, lastRun, closed>>
    /\ UNCHANGED <<manifestCols, raw, schemas, root, disk, scanned_count,
                   skipped_count, rescan>>
    /\ UNCHANGED apiVars
    /\ UNCHANGED processed
    /\ UNCHANGED handled

NextIngestFaults ==
    \/ IngestStart
    \/ IngestSkipUnreadable
    \/ IngestSkipExisting
    \/ IngestRegister
    \/ IngestSave
    \/ IngestUpdateMayFail
    \/ IngestFinish
    \/ EnvWrite
    \/ EnvRoot

SpecIngestFaults == InitManifest /\ [][NextIngestFaults]_vars

----------------------------------------------------------------------------
(* Properties *)

Loaded == "loaded_to_raw_lake"

Terminal ==
    {"processed", "parse_error_no_content", "parse_error_schema_not_identified",
     "parse_error_schema_missing", "parse_error_parser_failed",
     "validation_error", "load_error"}

HasRow(m, h) == \E r \in m : r.file_hash = h
HasBlob(t, h) == \E b \in t : b.file_hash = h
StatusOf(m, h) == {r.status : r \in {x \in m : x.file_hash = h}}
UniqueKey(t) == \A r1, r2 \in t : r1.file_hash = r2.file_hash => r1 = r2

\* the manifest and the raw store were created by the pipelines themselves
OwnStores == manifestCols = "source_path"

TransformReturned ==
    pc = "idle" /\ lastRun \in {"transform_empty", "transform_completed",
                                "transform_aborted"}

IngestStep == pc \in {"scan", "save", "update"} \/ pc' \in {"scan", "save", "update"}

TransformStepTaken ==
    pc = "process" \/ pc' = "process" \/ (lastRun' = "transform_empty" /\ pc = "idle")

\* C1: when TransformationPipeline.run() has returned, every row that was
\* loaded_to_raw_lake at its start has been given a terminal status, whatever
\* failed for the other files: no row is still loaded_to_raw_lake (a run only
\* ever moves rows out of that status)
C1_RunSettlesEveryPendingRow ==
    TransformReturned => \A r \in manifest : r.status # Loaded

\* a pending file that has a blob, matches a schema, parses under it and is
\* not rejected by the validator as critically invalid
AcceptedFile(file_hash) ==
    LET raw_content == get_raw_content(raw, file_hash) IN
    /\ ~IsNone(raw_content)
    /\ LET schema_name == identify_schema_from_content(schemas, Val(raw_content)) IN
       /\ ~IsNone(schema_name)
       /\ LET schema_definition == Val(SchemaGet(schemas, Val(schema_name)))
              dataframe == parse(Val(raw_content), schema_definition).value
          IN  /\ ~IsNone(dataframe)
              /\ LET v == validate(Val(dataframe), schema_definition) IN
                 ~(v.exc = NoErr /\ IsNone(v.value))

\* C2: a pending file with a blob that matches a schema, parses and validates
\* without critical failure leaves the loop of run() with status processed
C2_AcceptedFileIsProcessed ==
    [][pc = "process" =>
          \A f \in pending \ pending' :
              AcceptedFile(f.file_hash) => StatusOf(manifest', f.file_hash) = {"processed"}]_vars

\* C3: on a manifest that the ingestion created and filled, find_pending_files
\* returns exactly the rows whose status is loaded_to_raw_lake
C3_PendingAreTheLoadedRows ==
    (OwnStores /\ pc = "idle") =>
        {r.file_hash : r \in find_pending_files(manifestCols, manifest)}
            = {r.file_hash : r \in {x \in manifest : x.status = Loaded}}

StatusMoves ==
    {<<{}, {"registered"}>>, <<{"registered"}, {Loaded}>>}
        \cup {<<{Loaded}, {t}>> : t \in Terminal}

\* C4: a row's status only ever moves absent -> registered -> loaded_to_raw_lake
\* -> one terminal status; never backwards, never from a terminal status on
C4_StatusMovesForward ==
    [][\A h \in KnownHashes :
          StatusOf(manifest, h) # StatusOf(manifest', h)
              => <<StatusOf(manifest, h), StatusOf(manifest', h)>> \in StatusMoves]_vars

C4_Witness ==
    /\ \E r \in manifest : r.status = "parse_error_parser_failed"
    /\ \E r \in manifest : r.status = "parse_error_no_content"

\* C5: register_file on a hash already in the manifest raises the constraint
\* error and leaves the table as it was; no sequence of register_file and
\* update_status calls makes two rows of one hash or removes a row
C5_RegisterIsTheOnlyInsert ==
    [][/\ (call'.op = "register_file" /\ HasRow(manifest, call'.file_hash))
              => (err' = "ConstraintException" /\ manifest' = manifest)
       /\ UniqueKey(manifest')
       /\ \A r \in manifest : HasRow(manifest', r.file_hash)]_vars

C5_Witness ==
    /\ call.op = "register_file"
    /\ err = "ConstraintException"
    /\ \E r \in manifest :
           r.file_hash = call.file_hash /\ r.path # call.arg /\ r.status = "processed"

\* C6: the manifest holds at most one row and the raw store at most one blob
\* per hash, and a scanned file whose hash is already in the manifest is
\* counted as skipped and changes neither store
C6_OneRowOneBlobPerContent ==
    [][/\ UniqueKey(manifest') /\ UniqueKey(raw')
       /\ \A r1, r2 \in raw' : r1.raw_content = r2.raw_content => r1 = r2
       /\ (/\ pc = "scan" /\ queue # <<>>
           /\ disk[Head(queue)].kind = "file"
           /\ HasRow(manifest, sha256_file(disk[Head(queue)].content)))
              => /\ skipped_count' = skipped_count + 1
                 /\ scanned_count' = scanned_count + 1
                 /\ added_count' = added_count
                 /\ manifest' = manifest /\ raw' = raw /\ pc' = "scan"]_vars

\* a.txt and b.txt hold the same bytes: two files scanned, one row, one blob
C6_Witness ==
    /\ OwnStores
    /\ lastRun = "ingest_completed"
    /\ disk["a.txt"].kind = "file" /\ disk["a.txt"] = disk["b.txt"]
    /\ scanned_count = 2 /\ added_count = 1 /\ skipped_count = 1
    /\ Cardinality(manifest) = 1 /\ Cardinality(raw) = 1

\* C7: an ingestion run over a directory unchanged since a completed run adds
\* nothing: the manifest and the raw store stay as they are and every scanned
\* file is counted as skipped
C7_RescanAddsNothing ==
    [][(rescan /\ IngestStep) =>
          /\ manifest' = manifest /\ raw' = raw
          /\ added_count' = 0
          /\ skipped_count' = scanned_count'
          /\ lastRun' # "ingest_aborted"]_vars

C7_Witness ==
    /\ rescan /\ lastRun = "ingest_completed"
    /\ scanned_count = 2 /\ skipped_count = 2 /\ added_count = 0
    /\ \E r \in manifest : r.status = Loaded

\* C8: during and after ingestion runs, a row whose status is
\* loaded_to_raw_lake has its blob in the raw store
C8_LoadedRowHasBlob ==
    OwnStores => \A r \in manifest : r.status = Loaded => HasBlob(raw, r.file_hash)

C8_Witness ==
    /\ OwnStores /\ pc = "save"
    /\ \E r \in manifest : r.status = Loaded
    /\ \E r \in manifest : r.status = "registered" /\ ~HasBlob(raw, r.file_hash)

\* C9: for every file the ingestion added, get_raw_content returns bytes whose
\* SHA-256 is the key, the bytes the scanner hashed
C9_StoredBytesHashToKey ==
    OwnStores =>
        /\ \A r \in manifest : r.status # "registered" =>
               /\ ~IsNone(get_raw_content(raw, r.file_hash))
               /\ sha256_file(Val(get_raw_content(raw, r.file_hash))) = r.file_hash
        /\ \A b \in raw : get_raw_content(raw, b.file_hash) = Some(b.raw_content)
        /\ \A b \in raw : sha256_file(b.raw_content) = b.file_hash

C9_Witness ==
    /\ OwnStores
    /\ \A c \in DiskContents :
           /\ StatusOf(manifest, sha256_file(c)) = {Loaded}
           /\ get_raw_content(raw, sha256_file(c)) = Some(c)

LoopStep == pc = "process" /\ handled' # handled

\* the loop goes on after the step: no exception has left it
LoopGoesOn == pc' = "process" /\ err' = NoErr /\ lastRun' = "none"

\* C11: a pending hash with no blob in the raw store gets status
\* parse_error_no_content, only get_raw_content is called for it, and the loop
\* goes on
C11_NoContentIsRecorded ==
    [][(LoopStep /\ ~HasBlob(raw, Val(handled'.file))) =>
          /\ StatusOf(manifest', Val(handled'.file)) = {"parse_error_no_content"}
          /\ handled'.calls = <<"get_raw_content">>
          /\ LoopGoesOn]_vars

\* a row without blob was handled while another file was still queued, and
\* that one was handled after it
C11_Witness ==
    /\ pc = "process"
    /\ \E r \in manifest :
           r.status = "parse_error_no_content" /\ ~HasBlob(raw, r.file_hash)
    /\ ~IsNone(handled.file)
    /\ HasBlob(raw, Val(handled.file))

\* the blob and the schema definition run() hands to the parser for a hash
BlobOf(file_hash) == Val(get_raw_content(raw, file_hash))
SchemaOf(file_hash) ==
    Val(SchemaGet(schemas, Val(identify_schema_from_content(schemas, BlobOf(file_hash)))))

\* the content cannot be decoded under the schema's encoding, or is malformed
Unparsable(content, schema) ==
    \/ IsNone(Decode(content, schema.encoding))
    \/ EOFInsideString(Val(Decode(content, schema.encoding)), schema.delimiter)

\* C12: parse raises for no content and no registered schema and returns None
\* for content it cannot decode or tokenize; run() then writes
\* parse_error_parser_failed for the file and the loop goes on
C12_ParserFailureIsRecorded ==
    [][/\ LoopStep =>
              \A c \in Contents, i \in DOMAIN schemas :
                  /\ parse(c, schemas[i]).exc = NoErr
                  /\ Unparsable(c, schemas[i]) => IsNone(parse(c, schemas[i]).value)
       /\ (/\ LoopStep
           /\ Len(handled'.calls) >= 3
           /\ Unparsable(BlobOf(Val(handled'.file)), SchemaOf(Val(handled'.file))))
              => /\ StatusOf(manifest', Val(handled'.file)) = {"parse_error_parser_failed"}
                 /\ handled'.calls[Len(handled'.calls)] = "parse"
                 /\ LoopGoesOn]_vars

\* both kinds of failure have been recorded in one run: the big5 content under
\* a utf-8 schema and the unclosed quote
C12_Witness ==
    /\ pc = "process"
    /\ StatusOf(manifest, sha256_file(<<97, 164, 64>>)) = {"parse_error_parser_failed"}
    /\ StatusOf(manifest, sha256_file(<<34, 97>>)) = {"parse_error_parser_failed"}
    /\ handled.calls = <<"get_raw_content", "identify_schema_from_content", "parse">>

\* no keyword of a registered schema occurs in the content, or the content
\* decodes under neither utf-8 nor big5, or decodes to nothing
NothingMatches(content) ==
    LET utf8 == Decode(content, "utf-8")
        text == IF IsNone(utf8) THEN Decode(content, "big5") ELSE utf8
    IN  \/ IsNone(text)
        \/ Val(text) = <<>>
        \/ \A i \in DOMAIN schemas : \A k \in DOMAIN schemas[i].keywords :
               ~Contains(Lower(Val(text)), Lower(schemas[i].keywords[k]))

\* C13: when no schema is identified for a pending file's content, run() writes
\* parse_error_schema_not_identified, calls neither parser, validator nor
\* loader for it, and the loop goes on
C13_NoSchemaIsRecorded ==
    [][(/\ LoopStep
        /\ HasBlob(raw, Val(handled'.file))
        /\ NothingMatches(BlobOf(Val(handled'.file))))
           => /\ StatusOf(manifest', Val(handled'.file))
                     = {"parse_error_schema_not_identified"}
              /\ handled'.calls = <<"get_raw_content", "identify_schema_from_content">>
              /\ LoopGoesOn]_vars

\* "1", which holds no keyword, and the undecodable byte have both been
\* recorded in one run
C13_Witness ==
    /\ pc = "process"
    /\ StatusOf(manifest, sha256_file(<<49>>)) = {"parse_error_schema_not_identified"}
    /\ StatusOf(manifest, sha256_file(<<255>>)) = {"parse_error_schema_not_identified"}
    /\ handled.calls = <<"get_raw_content", "identify_schema_from_content">>

\* C14: when validate returns None for a pending file, run() writes
\* validation_error, does not call the loader, leaves the processed store as it
\* is, and the loop goes on
C14_RejectedTableIsNotLoaded ==
    [][(/\ LoopStep
        /\ Len(handled'.calls) >= 4
        /\ unit'.validated_df = Returns(NoneVal))
           => /\ StatusOf(manifest', Val(handled'.file)) = {"validation_error"}
              /\ handled'.calls[Len(handled'.calls)] = "validate"
              /\ processed' = processed
              /\ LoopGoesOn]_vars

\* validate has just returned None for a file, after an earlier file of the
\* same run was loaded
C14_Witness ==
    /\ pc = "process"
    /\ unit.op = "stand_in" /\ unit.validated_df = Returns(NoneVal)
    /\ handled.calls = <<"get_raw_content", "identify_schema_from_content",
                         "parse", "validate">>
    /\ StatusOf(manifest, Val(handled.file)) = {"validation_error"}
    /\ \E r \in manifest : r.status = "processed"
    /\ processed # {}

\* C15: when load_dataframe raises, a duckdb.Error or anything else, run()
\* writes load_error for the file, never processed, and the loop goes on
C15_LoadFailureIsRecorded ==
    [][(/\ LoopStep
        /\ Len(handled'.calls) = 5
        /\ unit'.loaded # NoErr)
           => /\ StatusOf(manifest', Val(handled'.file)) = {"load_error"}
              /\ processed' = processed
              /\ LoopGoesOn]_vars

\* two files of one run have met a loader that raised, the last one an
\* exception that is no duckdb.Error
C15_Witness ==
    /\ pc = "process"
    /\ unit.op = "stand_in" /\ unit.loaded = "TypeError"
    /\ Len(handled.calls) = 5
    /\ Cardinality({r \in manifest : r.status = "load_error"}) = 2

\* a column the schema declares non-nullable and the frame holds has, after
\* pd.to_numeric, a null in some row
NullInNonNullable(df, columns) ==
    \E k \in DOMAIN columns.names : \E c \in DOMAIN df.columns :
        /\ df.columns[c] = columns.names[k]
        /\ ~columns.specs[k].nullable
        /\ \E r \in DOMAIN df.rows :
               IsNone(Coerce(columns.specs[k].dtype, df.rows[r][c]))

\* C16: when a non-nullable column of the table holds a null after coercion,
\* validate returns None
C16_NullInNonNullableGivesNone ==
    (unit.op = "validate" /\ NullInNonNullable(unit.dataframe, unit.schema.columns))
        => unit.result = Returns(NoneVal)

\* the rows of the loaded table, each as a record over the column names
TableRows ==
    IF HasTable(processed, DictSchema.table_name)
    THEN LET t == TableOf(processed, DictSchema.table_name)
         IN  {Named(t.rows[i], t.columns) : i \in DOMAIN t.rows}
    ELSE {}

\* C17: in upsert mode, after any sequence of loads that returned, the table
\* holds exactly one row for each unique-key value, and the values of that row
\* are those of the most recent load that contained the key.
C17_UpsertKeepsLatestRow ==
    unit.op = "load_dataframe" =>
        /\ TableRows = unit.latest
        /\ \A x, y \in TableRows : x.id = y.id => x = y

\* the text identify_schema_from_content searches: the content decoded as
\* utf-8, else as big5, in lower case
SearchedText(raw_content) ==
    IF ~IsNone(Decode(raw_content, "utf-8"))
    THEN Some(Lower(Val(Decode(raw_content, "utf-8"))))
    ELSE IF ~IsNone(Decode(raw_content, "big5"))
    THEN Some(Lower(Val(Decode(raw_content, "big5"))))
    ELSE NoneVal

\* the positions of the registry whose schema has a keyword in the content
Matching(reg, raw_content) ==
    {i \in DOMAIN reg :
        /\ ~IsNone(SearchedText(raw_content))
        /\ \E k \in DOMAIN reg[i].keywords :
               Contains(Val(SearchedText(raw_content)), Lower(reg[i].keywords[k]))}

FirstOf(S) == CHOOSE x \in S : \A y \in S : x <= y

\* C18: when the content matches several schemas, the first of them in
\* registry order is returned, whatever the order of the keywords inside each
\* keyword list.
C18_FirstMatchingSchemaWins ==
    unit.op = "identify" /\ Cardinality(Matching(unit.schemas, unit.raw_content)) >= 2 =>
        /\ unit.result =
               Some(unit.schemas[FirstOf(Matching(unit.schemas, unit.raw_content))].name)
        /\ unit.reversed = unit.result

\* two schemas match "ab", the second of them on the first keyword of its list
\* and the first on the last keyword of its list, and the first is returned
C18_Witness ==
    /\ unit.op = "identify"
    /\ unit.raw_content = <<97, 98>>
    /\ unit.schemas = <<[name |-> "schema_B", keywords |-> <<<<66>>, <<97>>>>],
                        [name |-> "schema_A", keywords |-> <<<<97>>, <<66>>>>]>>
    /\ unit.result = Some("schema_B")
    /\ unit.reversed = Some("schema_B")

\* C19: a schema name is returned only if that schema has a non-empty keyword
\* list and one of its keywords, in lower case, occurs in the decoded content
\* in lower case; a schema without keywords is never returned; when no schema
\* matches, nothing is returned.
C19_OnlyMatchingSchemasAreReturned ==
    unit.op = "identify" =>
        /\ \A i \in DOMAIN unit.schemas :
               unit.result = Some(unit.schemas[i].name) =>
                   /\ unit.schemas[i].keywords # <<>>
                   /\ i \in Matching(unit.schemas, unit.raw_content)
        /\ ~IsNone(unit.result) =>
               \E i \in DOMAIN unit.schemas : unit.result = Some(unit.schemas[i].name)
        /\ Matching(unit.schemas, unit.raw_content) = {} => IsNone(unit.result)

\* a schema without keywords stands first and is passed over for the second,
\* whose keyword "B" occurs in the content "b" once in lower case
C19_Witness ==
    /\ unit.op = "identify"
    /\ unit.raw_content = <<98>>
    /\ Len(unit.schemas) = 2
    /\ unit.schemas[1].keywords = <<>>
    /\ unit.schemas[2].keywords = <<<<66>>>>
    /\ unit.result = Some(unit.schemas[2].name)

\* the rows of a text read without skipping
AllRows(raw_content, schema) ==
    read_csv(Val(Decode(raw_content, schema.encoding)), schema.delimiter,
             schema.columns.names).rows

\* C20: the table parse returns holds the rows of the content without the
\* first csv_skip_rows of them; when csv_skip_rows is at least the number of
\* rows, it is the empty table with the declared columns.
C20_LeadingRowsAreSkipped ==
    unit.op = "parse" /\ ~IsNone(unit.result.value) =>
        LET all == AllRows(unit.raw_content, unit.schema)
            csv_skip_rows == unit.schema.csv_skip_rows
        IN  /\ Val(unit.result.value).columns = unit.schema.columns.names
            /\ Val(unit.result.value).rows =
                   SubSeq(all, csv_skip_rows + 1, Len(all))

\* the lines of a decoded text that hold anything
LinesOf(raw_content, schema) ==
    SelectSeq(SplitOn(Val(Decode(raw_content, schema.encoding)), 10),
              LAMBDA line : line # <<>>)

\* the table the declared names give when they are assigned by position:
\* one row for each line, field j under name j, fields beyond the names
\* dropped, names beyond the fields null
Positional(table, raw_content, schema) ==
    LET lines == LinesOf(raw_content, schema)
        names == schema.columns.names
    IN  /\ table.columns = names
        /\ Len(table.rows) = Len(lines)
        /\ \A i \in DOMAIN lines :
               LET fields == SplitOn(lines[i], schema.delimiter) IN
               /\ Len(table.rows[i]) = Len(names)
               /\ \A j \in DOMAIN names :
                      table.rows[i][j] =
                          IF j <= Len(fields) THEN Cell(fields[j]) ELSE NoneVal

\* C21: for a schema whose columns are a map from name to column spec, parse
\* returns for content it can decode and tokenize a table with exactly the
\* declared names in declared order, assigned by position with no header
\* inferred, each row having as many cells as there are names.
C21_DeclaredNamesByPosition ==
    (/\ unit.op = "parse"
     /\ unit.schema.columns.kind = "dict"
     /\ unit.raw_content # <<>>
     /\ ~Unparsable(unit.raw_content, unit.schema))
        => /\ ~IsNone(unit.result.value)
           /\ Positional(Val(unit.result.value), unit.raw_content, unit.schema)

\* the rows of the loaded table in insertion order
RowsOf(store) ==
    IF HasTable(store, DictSchema.table_name)
    THEN TableOf(store, DictSchema.table_name).rows ELSE <<>>

\* C22: load_dataframe goes the append way exactly when the schema's
\* unique_key is absent or empty: it then hands the DataFrame to to_sql, which
\* appends all its rows, registers no view and resolves no conflict; with a
\* non-empty unique_key it goes the upsert way, which starts by registering
\* the view.
C22_AppendExactlyWithoutUniqueKey ==
    [][(unit'.op = "load_call" /\ unit'.dataframe.rows # <<>>) =>
          /\ unit'.unique_key = <<>> <=> "to_sql" \in SeqToSet(unit'.ops)
          /\ unit'.unique_key = <<>> =>
                 /\ unit'.ops = <<"to_sql">>
                 /\ unit'.views = {}
                 /\ unit'.exc = NoErr =>
                        RowsOf(processed') = RowsOf(processed) \o unit'.dataframe.rows
          /\ unit'.unique_key # <<>> =>
                 /\ Head(unit'.ops) = "register"
                 /\ unit'.exc = NoErr => "upsert" \in SeqToSet(unit'.ops)]_vars

\* a second append of the row (1, 1) has returned: the table holds it twice
C22_Witness ==
    /\ unit.op = "load_call"
    /\ unit.n = 2
    /\ unit.unique_key = <<>>
    /\ unit.exc = NoErr
    /\ unit.ops = <<"to_sql">>
    /\ RowsOf(processed) = <<<<Some(<<49>>), Some(<<49>>)>>,
                              <<Some(<<49>>), Some(<<49>>)>>>>

\* C30: whenever load_dataframe has registered the view temp_view_<table>, the
\* view is unregistered when the call returns or raises, whatever the way out.
C30_ViewIsUnregistered ==
    (unit.op = "load_call" /\ "register" \in SeqToSet(unit.ops)) =>
        /\ unit.views = {}
        /\ unit.ops[Len(unit.ops)] = "unregister"

\* a run of IngestionPipeline starts while the input directory is missing
IngestStartsWithoutRoot ==
    /\ pc = "idle"
    /\ ~root /\ ~root'
    /\ pc' # "process"
    /\ lastRun' # "transform_empty"

C24_UpdateStatusTouchesOneRow ==
    [][call'.op = "update_status" =>
          LET h == call'.file_hash
              s == call'.arg
          IN  /\ err' = NoErr
              /\ \A r \in manifest :
                     IF r.file_hash = h
                     THEN [r EXCEPT !.status = s] \in manifest'
                     ELSE r \in manifest'
              /\ Cardinality(manifest') = Cardinality(manifest)
              /\ ~HasRow(manifest, h) => manifest' = manifest
              /\ (call = call' /\ err = NoErr) => manifest' = manifest]_vars

\* update_status has set one row of a manifest of two rows to processed, the
\* other row still being registered
C24_Witness ==
    /\ call.op = "update_status"
    /\ StatusOf(manifest, call.file_hash) = {call.arg}
    /\ call.arg = "processed"
    /\ \E r \in manifest : r.file_hash # call.file_hash /\ r.status = "registered"

\* C25: get_raw_content never raises: it returns the stored bytes when the
\* connection is open, the query succeeds and a blob of the hash exists, and
\* None when there is no such blob, when the query fails, and when the
\* connection was closed before.
C25_GetRawContentNeverRaises ==
    unit.op = "get_raw_content" =>
        /\ unit.result.exc = NoErr
        /\ IF unit.con = "open" /\ unit.fault = NoErr /\ HasBlob(raw, unit.file_hash)
           THEN \E b \in raw : /\ b.file_hash = unit.file_hash
                                /\ unit.result.value = Some(b.raw_content)
           ELSE unit.result.value = NoneVal

\* the reader was closed and then asked for a blob the store holds
C25_Witness ==
    /\ unit.op = "get_raw_content"
    /\ unit.con = "closed"
    /\ HasBlob(raw, unit.file_hash)
    /\ unit.result = Returns(NoneVal)

\* C26: no step of an ingestion or of a transformation changes or removes a
\* blob of the raw store: save_file on a hash the store holds fails on the
\* primary key and leaves the store as it is, whatever bytes it is given,
\* and the steps of a transformation leave the raw store as it is.
C26_StoredBlobsStay ==
    [][/\ \A b \in raw : b \in raw'
       /\ \A b \in raw' : \A c \in Contents :
              save_file(raw', c, b.file_hash)
                  = [err |-> "ConstraintException", table |-> raw']
       /\ TransformStepTaken => raw' = raw]_vars

\* a.txt was stored, then overwritten and ingested again: the store holds
\* the old bytes and the new ones
C26_Witness ==
    /\ OwnStores
    /\ lastRun = "ingest_completed"
    /\ disk["a.txt"].kind = "file" /\ disk["b.txt"].kind = "absent"
    /\ Cardinality(raw) = 2
    /\ \A r \in manifest : r.path = "a.txt" /\ HasBlob(raw, r.file_hash)

\* the indices at which scan_directory yielded or warned about path p
YieldsOf(p) ==
    {i \in DOMAIN unit.result.yields : unit.result.yields[i].file_path = p}
WarningsOf(p) ==
    {i \in DOMAIN unit.result.warnings : unit.result.warnings[i] = p}

\* C27: scan_directory leaves out a file it cannot read or hash, with one
\* warning, and yields every other regular file exactly once, with the
\* SHA-256 of the whole of its bytes; it yields nothing else.
C27_ScanYieldsEveryReadableFileOnce ==
    unit.op = "scan_directory" =>
        \A p \in Paths :
            LET f == unit.disk[p] IN
            /\ f.kind = "unreadable" =>
                   YieldsOf(p) = {} /\ Cardinality(WarningsOf(p)) = 1
            /\ f.kind = "file" =>
                   /\ Cardinality(YieldsOf(p)) = 1
                   /\ WarningsOf(p) = {}
                   /\ \A i \in YieldsOf(p) :
                          unit.result.yields[i].file_hash
                              = sha256_update(0, f.content)
            /\ f.kind = "absent" => YieldsOf(p) = {} /\ WarningsOf(p) = {}

\* the file walked first could not be read, the one after it was yielded
C27_Witness ==
    /\ unit.op = "scan_directory"
    /\ Len(unit.all_files) = 2
    /\ unit.disk[unit.all_files[1]].kind = "unreadable"
    /\ unit.disk[unit.all_files[2]] = File(<<65, 44, 49>>)
    /\ Len(unit.result.yields) = 1
    /\ unit.result.warnings = <<unit.all_files[1]>>

\* the declared columns the DataFrame has, from the k-th on
RECURSIVE KeepPresent(_, _, _)
KeepPresent(columns, df, k) ==
    IF k > Len(columns.names) THEN [names |-> <<>>, specs |-> <<>>]
    ELSE LET rest == KeepPresent(columns, df, k + 1) IN
         IF \E c \in DOMAIN df.columns : df.columns[c] = columns.names[k]
         THEN [names |-> <<columns.names[k]>> \o rest.names,
               specs |-> <<columns.specs[k]>> \o rest.specs]
         ELSE rest

\* the schema without the columns the DataFrame lacks
WithoutAbsent(schema, df) ==
    LET kept == KeepPresent(schema.columns, df, 1) IN
    [schema EXCEPT !.columns.names = kept.names, !.columns.specs = kept.specs]

DeclaresAbsent(schema, df) ==
    \E k \in DOMAIN schema.columns.names :
        \A c \in DOMAIN df.columns : df.columns[c] # schema.columns.names[k]

\* C28: a column the schema declares and the DataFrame lacks is skipped: it
\* is not added to the result, and validate does what it does under the
\* schema without that column, also when the column is declared non-nullable.
C28_AbsentColumnIsSkipped ==
    (unit.op = "validate" /\ DeclaresAbsent(unit.schema, unit.dataframe)) =>
        /\ unit.result
               = validate(unit.dataframe, WithoutAbsent(unit.schema, unit.dataframe))
        /\ ~IsNone(unit.result.value)
               => Val(unit.result.value).columns = unit.dataframe.columns

\* the schema declares the non-nullable column "missing", the DataFrame has
\* rows and lacks it, and validate returned a table
C28_Witness ==
    /\ unit.op = "validate"
    /\ unit.schema.columns.names = <<"missing", "id">>
    /\ ~unit.schema.columns.specs[1].nullable
    /\ unit.dataframe.rows # <<>>
    /\ unit.result.exc = NoErr
    /\ ~IsNone(unit.result.value)
    /\ Val(unit.result.value).columns = <<"id", "name">>

\* C29: validate returns a table exactly when no declared, non-nullable
\* column of the DataFrame holds a null after coercion; the table has the
\* columns and the number of rows of the input, every cell is the input's
\* cell, or null where the coercion failed, and nulls are kept.
C29_TableExactlyWithoutCriticalNull ==
    unit.op = "validate" =>
        /\ (unit.result.exc = NoErr /\ ~IsNone(unit.result.value))
               <=> ~NullInNonNullable(unit.dataframe, unit.schema.columns)
        /\ (unit.result.exc = NoErr /\ ~IsNone(unit.result.value)) =>
               LET df == unit.dataframe
                   out == Val(unit.result.value)
               IN  /\ out.columns = df.columns
                   /\ Len(out.rows) = Len(df.rows)
                   /\ \A r \in DOMAIN df.rows : \A c \in DOMAIN df.columns :
                          out.rows[r][c] \in {df.rows[r][c], NoneVal}

\* the column of table t that is declared as d is defined as d says
DefinedAs(t, d) ==
    LET c == Position(t.columns, d.col_name) IN
    /\ t.defs[c].db_type = d.db_type
    /\ d.not_null => (t.defs[c].not_null \/ d.col_name \in SeqToSet(t.key))

\* C31: when an upsert-mode load has created the table, each column the
\* schema declares has the type of its db_type hint (VARCHAR when there is
\* none) and is NOT NULL when it is declared with nullable false.
C31_CreatedAsDeclared ==
    (unit.op = "load_call" /\ unit.declared # <<>>) =>
        /\ HasTable(processed, DictSchema.table_name)
        /\ \A i \in DOMAIN unit.declared :
               DefinedAs(TableOf(processed, DictSchema.table_name), unit.declared[i])

\* the rows of the DataFrame of the last call are rows of the table
RowsLanded ==
    /\ HasTable(processed, DictSchema.table_name)
    /\ \A i \in DOMAIN unit.dataframe.rows :
           \E j \in DOMAIN RowsOf(processed) :
               Named(RowsOf(processed)[j],
                     TableOf(processed, DictSchema.table_name).columns)
                   = Named(unit.dataframe.rows[i], unit.dataframe.columns)

UpsertCall == unit'.op = "load_call" /\ unit'.ops # <<>> /\ unit'.unique_key # <<>>

\* C36: ALTER TABLE ... ADD PRIMARY KEY is attempted only by the call that
\* creates the table; the table that call creates is there afterwards also
\* when the call fails; and an upsert-mode load into a table that is there
\* neither creates nor alters it: it registers the view, executes the INSERT
\* ... ON CONFLICT statement and unregisters the view, the key of the table
\* staying as it was.
C36_KeyRetrofitOnlyAtCreation ==
    [][UpsertCall =>
          LET name == DictSchema.table_name IN
          /\ "alter" \in SeqToSet(unit'.ops)
                 => ("create" \in SeqToSet(unit'.ops) /\ ~HasTable(processed, name))
          /\ "create" \in SeqToSet(unit'.ops)
                 => (~HasTable(processed, name) /\ HasTable(processed', name))
          /\ HasTable(processed, name) =>
                 /\ unit'.ops = <<"register", "upsert", "unregister">>
                 /\ HasTable(processed', name)
                 /\ TableOf(processed', name).key = TableOf(processed, name).key
                 /\ TableOf(processed', name).defs = TableOf(processed, name).defs]_vars

\* the first call created the table and failed; the second went straight to
\* the upsert statement and failed again, the table being without key
C36_Witness ==
    /\ unit.op = "load_call" /\ unit.n = 2
    /\ unit.unique_key # <<>>
    /\ unit.ops = <<"register", "upsert", "unregister">>
    /\ unit.exc = "BinderException"
    /\ HasTable(processed, DictSchema.table_name)
    /\ TableOf(processed, DictSchema.table_name).key = <<>>
    /\ TableOf(processed, DictSchema.table_name).rows = <<>>

TransformRunEnds == TransformStepTaken /\ pc' = "idle"

Stranded(m, c) ==
    {r.file_hash : r \in {x \in m : /\ x.status = "registered"
                                     /\ (IsNone(c) \/ Val(c).file_hash # x.file_hash)}}

\* C34: when save_file fails for a file just registered, the ingestion run
\* ends there: the row stays registered, no blob is stored, and the files
\* still to be scanned are left.  From then on the row stays registered and
\* without blob: every later ingestion run counts a file of that content as
\* skipped and changes neither store, and the transformation's query for
\* pending files does not select the row.
C34_FailedSaveStrandsTheRow ==
    [][/\ (pc = "save" /\ err' # NoErr) =>
              /\ pc' = "idle" /\ lastRun' = "ingest_aborted"
              /\ queue' = <<>>
              /\ manifest' = manifest /\ raw' = raw
              /\ added_count' = added_count
              /\ Val(cur).file_hash \in Stranded(manifest', cur')
       /\ \A h \in Stranded(manifest, cur) :
              /\ h \in Stranded(manifest', cur')
              /\ ~HasBlob(raw', h)
              /\ \A r \in find_pending_files("file_path", manifest') :
                     r.file_hash # h
       /\ (/\ pc = "scan" /\ queue # <<>>
           /\ disk[Head(queue)].kind = "file"
           /\ sha256_file(disk[Head(queue)].content) \in Stranded(manifest, cur))
              => /\ skipped_count' = skipped_count + 1
                 /\ manifest' = manifest /\ raw' = raw
                 /\ pc' = "scan"]_vars

\* save_file failed for a.txt in an earlier run; a later run over the same
\* file has completed and counted it as skipped, the row being registered
\* and without blob
C34_Witness ==
    /\ OwnStores
    /\ lastRun = "ingest_completed"
    /\ disk["a.txt"].kind = "file"
    /\ skipped_count = 1 /\ added_count = 0
    /\ sha256_file(disk["a.txt"].content) \in Stranded(manifest, cur)
    /\ ~HasBlob(raw, sha256_file(disk["a.txt"].content))

\* C35: update_status does not raise when the UPDATE or the commit fails:
\* the row keeps its status, and the ingestion run that called it carries on
\* as if the status had been written, counting the file as added.
C35_FailedUpdateGoesUnnoticed ==
    [][pc = "update" =>
          /\ \/ manifest' = manifest
             \/ manifest' = update_status(manifest, Val(cur).file_hash,
                                          "loaded_to_raw_lake")
          /\ pc' = "scan"
          /\ err' = NoErr /\ lastRun' = "none"
          /\ queue' = queue
          /\ raw' = raw
          /\ added_count' = added_count + 1]_vars

\* a run has completed and counted one file as added whose blob is stored
\* and whose row is still registered
C35_Witness ==
    /\ lastRun = "ingest_completed"
    /\ added_count = 1
    /\ \E r \in manifest : r.status = "registered" /\ HasBlob(raw, r.file_hash)

\* the raw store holds a blob of no bytes for the hash
HasEmptyBlob(t, h) == \E b \in t : b.file_hash = h /\ b.raw_content = <<>>

\* C37: a pending file whose blob is the empty byte string is handled as
\* present content: identification is called for it and finds nothing, the
\* status written is parse_error_schema_not_identified and not
\* parse_error_no_content, and the loop goes on
C37_EmptyBlobIsPresentContent ==
    [][(LoopStep /\ HasEmptyBlob(raw, Val(handled'.file)))
           => /\ get_raw_content(raw, Val(handled'.file)) = Some(<<>>)
              /\ IsNone(identify_schema_from_content(schemas, <<>>))
              /\ StatusOf(manifest', Val(handled'.file))
                     = {"parse_error_schema_not_identified"}
              /\ handled'.calls = <<"get_raw_content", "identify_schema_from_content">>
              /\ LoopGoesOn]_vars

\* the file of no bytes has been handled in a run and carries the status of an
\* unidentified schema, its blob still stored
C37_Witness ==
    /\ pc = "process"
    /\ ~IsNone(handled.file)
    /\ Val(handled.file) = sha256_file(<<>>)
    /\ HasEmptyBlob(raw, sha256_file(<<>>))
    /\ StatusOf(manifest, sha256_file(<<>>)) = {"parse_error_schema_not_identified"}

\* the name identification returns for the content is a key of the registry
IdentifiedIsRegistered(reg, content) ==
    LET schema_name == identify_schema_from_content(reg, content)
    IN  ~IsNone(schema_name) => ~IsNone(SchemaGet(reg, Val(schema_name)))

\* C40: no step of any run leaves a row with status parse_error_schema_missing:
\* whatever name identification returns for a content is a key of the
\* registry, so the lookup that follows it in run() finds a definition
C40_SchemaMissingIsNeverWritten ==
    [][/\ \A r \in manifest' : r.status # "parse_error_schema_missing"
       /\ LoopStep =>
              /\ \A c \in Contents : IdentifiedIsRegistered(schemas, c)
              /\ Len(handled'.calls) >= 2 /\ HasBlob(raw, Val(handled'.file))
                     /\ ~IsNone(identify_schema_from_content(
                                    schemas, BlobOf(Val(handled'.file))))
                     => Len(handled'.calls) >= 3]_vars

\* a schema was identified for a file and run() went on to the parser with
\* the definition it looked up
C40_Witness ==
    /\ pc = "process"
    /\ ~IsNone(handled.file)
    /\ HasBlob(raw, Val(handled.file))
    /\ ~IsNone(identify_schema_from_content(schemas, BlobOf(Val(handled.file))))
    /\ Len(handled.calls) >= 3
    /\ handled.calls[3] = "parse"
    /\ \A r \in manifest : r.status # "parse_error_schema_missing"

\* the SchemaManager of the run was built from a schema file that is not there
\* or does not hold JSON
BuiltFromBadFile ==
    unit.op = "SchemaManager" /\ unit.schema_file.kind \in {"missing", "invalid_json"}

====
